---- MODULE Spec2Model ----
(***************************************************************************)
(* A model of object-updater (updateObject, findKeyByProxy, addInstructions *)
(* and the merge engine behind them).                                       *)
(*                                                                          *)
(* JavaScript values are modelled on an explicit heap, so that identity     *)
(* (aliasing) and structural equality are different things:                 *)
(*   - a value is an integer: a positive integer is a reference to a heap   *)
(*     cell (a plain object or an array), anything else is a primitive;     *)
(*   - the heap is a sequence of cells, a cell's address is its index.      *)
(***************************************************************************)
EXTENDS Integers, Sequences, FiniteSets, TLC

(***************************************************************************)
(* Primitive values.                                                        *)
(***************************************************************************)
undefined == 0
null == 0 - 1
\* a falsy primitive other than null/undefined (false, 0, '')
falsy == 0 - 2
\* the n-th truthy primitive (a non-empty string, a non-zero number, true)
Prim(n) == falsy - n

IsRef(v) == v > 0
\* JavaScript truthiness: `!v` is ~Truthy(v)
Truthy(v) == v > 0 \/ v < falsy
IsNullish(v) == v = undefined \/ v = null

(***************************************************************************)
(* Property keys.  Every key a Proxy `get` trap or a for-in loop sees is a  *)
(* string; array indices are the strings "0", "1", ...                      *)
(***************************************************************************)
IndexKeys == <<"0", "1", "2", "3", "4", "5", "6", "7", "8", "9", "10", "11">>
FieldNames == {"a", "b", "c", "items", "name", "id", "v", "w"}
\* the key a selector reads when it touches a symbol-keyed property
SymbolKey == "@@symbol"
\* in a selector, the `?.` before the next read: the selector returns
\* undefined there when the value read so far is undefined or null
OptionalMark == "?."

IsIndex(key) == \E i \in DOMAIN IndexKeys : IndexKeys[i] = key
\* 1-based position of an index key
IndexOf(key) == CHOOSE i \in DOMAIN IndexKeys : IndexKeys[i] = key

(***************************************************************************)
(* Merge instructions (the value stored under Symbol.for('merge_<prop>')).  *)
(* A flag is "T" (true), "F" (false) or "U" (not set); mergeByProp is the   *)
(* property name, "" when not set.                                          *)
(***************************************************************************)
\* /Symbol\(merge_(\w+)\)/ matches only when <prop> consists of word characters
IsWord(prop) == prop \in FieldNames

(***************************************************************************)
(* Heap cells.                                                              *)
(*   k     : "rec" (plain object) or "arr" (array)                          *)
(*   props : the own string-keyed properties <<key, value>>, in insertion   *)
(*           order (for an array: the non-index properties)                 *)
(*   items : the elements of an array                                       *)
(*   syms  : the own properties <<prop, instructions>> keyed by the symbol  *)
(*           merge_<prop>, in insertion order                               *)
(***************************************************************************)
EmptyCell(kind) == [k |-> kind, props |-> <<>>, items |-> <<>>, syms |-> <<>>]

InSeq(s, x) == \E i \in DOMAIN s : s[i] = x
\* the first components of a sequence of pairs, and the pair of a given one
Firsts(pairs) == [i \in DOMAIN pairs |-> pairs[i][1]]
Has(pairs, x) == \E i \in DOMAIN pairs : pairs[i][1] = x
Lookup(pairs, x) == pairs[CHOOSE i \in DOMAIN pairs : pairs[i][1] = x][2]
\* pairs with x bound to y: in place when x is bound already, else at the end
Bind(pairs, x, y) ==
  IF Has(pairs, x)
  THEN [i \in DOMAIN pairs |-> IF pairs[i][1] = x THEN <<x, y>> ELSE pairs[i]]
  ELSE Append(pairs, <<x, y>>)

IsArray(h, v) == IsRef(v) /\ h[v].k = "arr"
\* typeof v === 'object' && v !== null
IsObject(h, v) == IsRef(v)

\* `key in o` for an object o
HasKey(h, o, key) ==
  IF h[o].k = "arr" /\ IsIndex(key)
  THEN IndexOf(key) <= Len(h[o].items)
  ELSE Has(h[o].props, key)

\* o[key] for an object o (a read of a primitive's property gives undefined)
Get(h, o, key) ==
  IF ~IsRef(o) THEN undefined
  ELSE IF h[o].k = "arr" /\ IsIndex(key)
  THEN IF IndexOf(key) <= Len(h[o].items) THEN h[o].items[IndexOf(key)] ELSE undefined
  ELSE IF Has(h[o].props, key) THEN Lookup(h[o].props, key) ELSE undefined

\* o[key] = v for an object o
Put(h, o, key, v) ==
  IF h[o].k = "arr" /\ IsIndex(key)
  THEN LET n == Len(h[o].items)
           i == IndexOf(key)
       IN [h EXCEPT ![o].items =
             [j \in 1..(IF i > n THEN i ELSE n) |->
                IF j = i THEN v ELSE IF j <= n THEN h[o].items[j] ELSE undefined]]
  ELSE [h EXCEPT ![o].props = Bind(@, key, v)]

\* arr.push(v)
Push(h, arr, v) == [h EXCEPT ![arr].items = Append(@, v)]

\* the keys a for-in loop (or Object.keys) visits: integer-like keys first,
\* then the other string keys in insertion order; symbols are never visited
OwnKeys(h, o) ==
  IF h[o].k = "arr"
  THEN [i \in 1..Len(h[o].items) |-> IndexKeys[i]] \o Firsts(h[o].props)
  ELSE SelectSeq(IndexKeys, LAMBDA key : Has(h[o].props, key))
         \o SelectSeq(Firsts(h[o].props), LAMBDA key : ~IsIndex(key))

(***************************************************************************)
(* lodash cloneDeep: a fresh copy of everything reachable from v.  A plain  *)
(* object is copied with its string keys and its symbol keys; an array is   *)
(* copied by index only.  A container met twice is copied once (lodash's    *)
(* stack), recorded in memo as <<original, copy>>.                          *)
(***************************************************************************)
RECURSIVE baseClone(_, _, _)
RECURSIVE cloneItems(_, _, _, _, _)
RECURSIVE cloneFields(_, _, _, _, _, _)

cloneItems(h, memo, src, dst, i) ==
  IF i > Len(h[src].items) THEN [h |-> h, memo |-> memo, v |-> dst]
  ELSE LET c == baseClone(h, memo, h[src].items[i])
       IN cloneItems(Push(c.h, dst, c.v), c.memo, src, dst, i + 1)

cloneFields(h, memo, src, dst, ks, i) ==
  IF i > Len(ks) THEN [h |-> h, memo |-> memo, v |-> dst]
  ELSE LET c == baseClone(h, memo, Get(h, src, ks[i]))
       IN cloneFields(Put(c.h, dst, ks[i], c.v), c.memo, src, dst, ks, i + 1)

baseClone(h, memo, v) ==
  IF ~IsRef(v) THEN [h |-> h, memo |-> memo, v |-> v]
  ELSE IF \E p \in memo : p[1] = v
  THEN [h |-> h, memo |-> memo, v |-> (CHOOSE p \in memo : p[1] = v)[2]]
  ELSE LET n == Len(h) + 1
           memo1 == memo \cup {<<v, n>>}
       IN IF h[v].k = "arr"
          THEN cloneItems(Append(h, EmptyCell("arr")), memo1, v, n, 1)
          ELSE cloneFields(
                 Append(h, [EmptyCell("rec") EXCEPT !.syms = h[v].syms]),
                 memo1, v, n, OwnKeys(h, v), 1)

\* _.cloneDeep(v): the new heap and the copy
cloneDeep(h, v) ==
  LET c == baseClone(h, {}, v) IN [h |-> c.h, v |-> c.v]

(***************************************************************************)
(* lodash isEqual on acyclic values: primitives by value, arrays by length  *)
(* and elements, plain objects by their own keys (symbol keys included) and *)
(* the values under them.                                                   *)
(***************************************************************************)
RECURSIVE isEqual(_, _, _)
isEqual(h, a, b) ==
  IF a = b THEN TRUE
  ELSE IF ~IsRef(a) \/ ~IsRef(b) THEN FALSE
  ELSE IF h[a].k # h[b].k THEN FALSE
  ELSE IF h[a].k = "arr"
  THEN /\ Len(h[a].items) = Len(h[b].items)
       /\ \A i \in 1..Len(h[a].items) : isEqual(h, h[a].items[i], h[b].items[i])
  ELSE /\ Len(h[a].props) = Len(h[b].props)
       /\ Len(h[a].syms) = Len(h[b].syms)
       /\ \A i \in DOMAIN h[a].props :
            /\ Has(h[b].props, h[a].props[i][1])
            /\ isEqual(h, h[a].props[i][2], Lookup(h[b].props, h[a].props[i][1]))
       /\ \A i \in DOMAIN h[a].syms :
            /\ Has(h[b].syms, h[a].syms[i][1])
            /\ h[a].syms[i][2] = Lookup(h[b].syms, h[a].syms[i][1])

(***************************************************************************)
(* addInstructions(options): the instruction object stored under            *)
(* Symbol.for(`merge_${prop}`).  Only the options that are not undefined    *)
(* are copied, so an unset flag stays unset ("U", "").                      *)
(***************************************************************************)
addInstructions(options) ==
  [mergeByContents |-> options.mergeByContents,
   mergeByProp |-> options.mergeByProp,
   mergeByName |-> options.mergeByName,
   deepMerge |-> options.deepMerge]

\* { ...o, [Symbol.for('merge_' + prop)]: instructions }
PutSym(h, o, prop, instructions) ==
  [h EXCEPT ![o].syms = Bind(@, prop, instructions)]

(***************************************************************************)
(* createPathString and lodash's string-to-path parse.  The path string is  *)
(* kept as its sequence of segments ['key'], which lodash splits at the     *)
(* dots and un-quotes.  Every key of a path comes from a Proxy get trap, so *)
(* every key is a string and every segment is bracket-quoted.               *)
(***************************************************************************)
createPathString(path) == [i \in DOMAIN path |-> <<"['", path[i], "']">>]
stringToPath(pathString) == [i \in DOMAIN pathString |-> pathString[i][2]]

\* _.get(object, pathString): undefined when the walk leaves the tree
RECURSIVE baseGet(_, _, _, _)
baseGet(h, object, path, index) ==
  IF index > Len(path) THEN object
  ELSE IF IsNullish(object) THEN undefined
  ELSE baseGet(h, Get(h, object, path[index]), path, index + 1)

lodashGet(h, object, pathString) ==
  LET path == stringToPath(pathString)
  IN IF Len(path) = 0 THEN undefined ELSE baseGet(h, object, path, 1)

\* _.set(object, pathString, value): a missing or primitive intermediate is
\* replaced by a new array (next key an index) or a new plain object
RECURSIVE baseSet(_, _, _, _, _)
baseSet(h, nested, path, index, value) ==
  IF index > Len(path) \/ ~IsRef(nested) THEN h
  ELSE IF index = Len(path) THEN Put(h, nested, path[index], value)
  ELSE LET objValue == Get(h, nested, path[index])
       IN IF IsRef(objValue)
          THEN baseSet(Put(h, nested, path[index], objValue), objValue, path, index + 1, value)
          ELSE LET n == Len(h) + 1
                   h1 == Append(h, EmptyCell(IF IsIndex(path[index + 1]) THEN "arr" ELSE "rec"))
               IN baseSet(Put(h1, nested, path[index], n), n, path, index + 1, value)

lodashSet(h, object, pathString, value) ==
  baseSet(h, object, stringToPath(pathString), 1, value)

(***************************************************************************)
(* findKeyByProxy(targetObject, lambda).  A selector (lambda) is the        *)
(* sequence of property chains it reads on the proxy, each chain starting   *)
(* at the proxy of the root.  The get trap throws on a symbol key, pushes   *)
(* every other key, and wraps an object result in a new proxy; a primitive  *)
(* result is returned raw, so later reads on it are not tracked, and a read *)
(* on undefined or null is the selector's own TypeError.                    *)
(*   cur = <<"proxy", o>> or <<"raw", v>>                                   *)
(***************************************************************************)
RECURSIVE readChain(_, _, _, _, _)
\* a faulty get trap: a symbol key is pushed onto the path like any other
\* key and read, nothing is thrown
readChain_PushSymbol(h, cur, chain, i, path) ==
  IF i > Len(chain) THEN [st |-> "ok", path |-> path]
  ELSE IF chain[i] = OptionalMark
  THEN IF cur[1] = "raw" /\ IsNullish(cur[2])
       THEN [st |-> "ok", path |-> path]
       ELSE readChain(h, cur, chain, i + 1, path)
  ELSE IF cur[1] = "proxy"
  THEN readChain(h, <<"raw", undefined>>, chain, i + 1, Append(path, chain[i]))
  ELSE IF IsNullish(cur[2])
  THEN [st |-> "throw", path |-> path]
  ELSE readChain(h, <<"raw", undefined>>, chain, i + 1, path)

readChain(h, cur, chain, i, path) ==
  IF i > Len(chain) THEN [st |-> "ok", path |-> path]
  ELSE IF chain[i] = OptionalMark
  THEN IF cur[1] = "raw" /\ IsNullish(cur[2])
       THEN [st |-> "ok", path |-> path]
       ELSE readChain(h, cur, chain, i + 1, path)
  ELSE IF cur[1] = "proxy"
  THEN IF chain[i] = SymbolKey
       THEN [st |-> "throw", path |-> path]
       ELSE LET result == Get(h, cur[2], chain[i])
            IN readChain(h, IF IsRef(result) THEN <<"proxy", result>> ELSE <<"raw", result>>,
                         chain, i + 1, Append(path, chain[i]))
  ELSE IF IsNullish(cur[2])
  THEN [st |-> "throw", path |-> path]
  ELSE readChain(h, <<"raw", undefined>>, chain, i + 1, path)

RECURSIVE runLambda(_, _, _, _, _)
runLambda(h, targetObject, lambda, c, path) ==
  IF c > Len(lambda) THEN [st |-> "ok", path |-> path]
  ELSE LET r == readChain(h, <<"proxy", targetObject>>, lambda[c], 1, path)
       IN IF r.st = "ok" THEN runLambda(h, targetObject, lambda, c + 1, r.path) ELSE r

\* a faulty findKeyByProxy: the results of reads are not wrapped, so only
\* the key read on the root is recorded
findKeyByProxy_RootOnly(h, targetObject, lambda) ==
  [runLambda(h, targetObject, lambda, 1, <<>>) EXCEPT
     !.path = IF @ = <<>> THEN <<>> ELSE <<@[1]>>]

findKeyByProxy(h, targetObject, lambda) == runLambda(h, targetObject, lambda, 1, <<>>)

(***************************************************************************)
(* The merge engine.  Every procedure takes the heap and returns            *)
(*   [h |-> the heap it leaves, st |-> "ok" | "throw" | "div"]              *)
(* "throw": a TypeError (a property read on null/undefined, an `in` on a    *)
(* non-object, a property write on a primitive: the module is strict code). *)
(* "div": a for-of loop that was still running after MaxIter iterations,    *)
(* which is only possible when the loop appends to the array it iterates.   *)
(* A for-of loop reads the live array on every iteration; a for-in loop     *)
(* visits the keys the object had when the loop started.                    *)
(***************************************************************************)
MaxIter == 5

OK(h) == [h |-> h, st |-> "ok"]
Throw(h) == [h |-> h, st |-> "throw"]
Diverge(h) == [h |-> h, st |-> "div"]
Then(m, Op(_)) == IF m.st = "ok" THEN Op(m.h) ELSE m

\* target[key] = v
Assign(h, target, key, v) == IF IsRef(target) THEN OK(Put(h, target, key, v)) ELSE Throw(h)

\* target.push(_.cloneDeep(item))
PushClone(h, target, item) ==
  LET c == cloneDeep(h, item) IN OK(Push(c.h, target, c.v))

\* for (const item of source) target.push(_.cloneDeep(item))
RECURSIVE appendItems(_, _, _, _)
appendItems(h, target, source, i) ==
  IF i > Len(h[source].items) THEN OK(h)
  ELSE IF i > MaxIter THEN Diverge(h)
  ELSE Then(PushClone(h, target, h[source].items[i]),
            LAMBDA h1 : appendItems(h1, target, source, i + 1))

\* target.findIndex(pred), 0 when there is none
FindIndex(h, target, pred(_)) ==
  IF \E i \in 1..Len(h[target].items) : pred(h[target].items[i])
  THEN CHOOSE i \in 1..Len(h[target].items) :
         /\ pred(h[target].items[i])
         /\ \A j \in 1..(i - 1) : ~pred(h[target].items[j])
  ELSE 0

\* Object.getOwnPropertySymbols(obj), filtered by /Symbol\(merge_(\w+)\)/:
\* the sequence of <<propertyName, instructions>>
extractPropertyMergeInstructions(h, obj) ==
  IF ~Truthy(obj) \/ ~IsObject(h, obj) THEN <<>>
  ELSE SelectSeq(h[obj].syms, LAMBDA entry : IsWord(entry[1]))

\* a faulty mergeByContentsInArray: an item is found only if it is the very
\* same value (===)
mergeByContentsInArray_ByIdentity(h, target, item) ==
  LET existingIndex == FindIndex(h, target, LAMBDA existingItem : existingItem = item)
  IN IF existingIndex >= 1 THEN OK(h) ELSE PushClone(h, target, item)

\* a faulty mergeByContentsInArray: the item is added without looking for it
mergeByContentsInArray_NoLookup(h, target, item) == PushClone(h, target, item)

mergeByContentsInArray(h, target, item) ==
  LET existingIndex == FindIndex(h, target, LAMBDA existingItem : isEqual(h, existingItem, item))
  IN IF existingIndex >= 1 THEN OK(h) ELSE PushClone(h, target, item)

RECURSIVE deepMergeWithArrayReplacement(_, _, _)
RECURSIVE deepMergeKeys(_, _, _, _, _)
RECURSIVE mergeWithPropertyInstructions(_, _, _, _)
RECURSIVE mergeDeclared(_, _, _, _, _)
RECURSIVE mergeArraysByName(_, _, _, _)
RECURSIVE mergeByPropInArray(_, _, _, _)
RECURSIVE mergeItemKeys(_, _, _, _, _)
RECURSIVE mergeItems(_, _, _, _, _, _)

\* a faulty mergeItemKeys: a sequence of the item is appended to the
\* sequence the existing item holds
mergeItemKeys_AppendSequences(h, existingItem, item, ks, i) ==
  IF i > Len(ks) THEN OK(h)
  ELSE Then(IF IsArray(h, Get(h, item, ks[i])) /\ IsArray(h, Get(h, existingItem, ks[i]))
            THEN appendItems(h, Get(h, existingItem, ks[i]), Get(h, item, ks[i]), 1)
            ELSE IF IsArray(h, Get(h, item, ks[i]))
            THEN Assign(cloneDeep(h, Get(h, item, ks[i])).h, existingItem, ks[i],
                        cloneDeep(h, Get(h, item, ks[i])).v)
            ELSE IF IsObject(h, Get(h, item, ks[i]))
            THEN Then(IF ~IsObject(h, Get(h, existingItem, ks[i]))
                      THEN Assign(Append(h, EmptyCell("rec")), existingItem, ks[i], Len(h) + 1)
                      ELSE OK(h),
                      LAMBDA h1 : deepMergeWithArrayReplacement(h1, Get(h1, existingItem, ks[i]),
                                                                Get(h1, item, ks[i])))
            ELSE Assign(h, existingItem, ks[i], Get(h, item, ks[i])),
            LAMBDA h1 : mergeItemKeys(h1, existingItem, item, ks, i + 1))

\* a faulty mergeItemKeys: a field the existing item already holds keeps its
\* value, only missing fields are taken from the item
mergeItemKeys_KeepExisting(h, existingItem, item, ks, i) ==
  IF i > Len(ks) THEN OK(h)
  ELSE Then(IF HasKey(h, existingItem, ks[i]) THEN OK(h)
            ELSE Assign(h, existingItem, ks[i], Get(h, item, ks[i])),
            LAMBDA h1 : mergeItemKeys(h1, existingItem, item, ks, i + 1))

\* the body of mergeByPropInArray's `for (const key in item)`
mergeItemKeys(h, existingItem, item, ks, i) ==
  IF i > Len(ks) THEN OK(h)
  ELSE LET key == ks[i]
           value == Get(h, item, key)
           step ==
             IF IsArray(h, value)
             THEN LET c == cloneDeep(h, value) IN Assign(c.h, existingItem, key, c.v)
             ELSE IF IsObject(h, value)
             THEN LET old == Get(h, existingItem, key)
                      reset == IF ~Truthy(old) \/ ~IsObject(h, old)
                               THEN Assign(Append(h, EmptyCell("rec")), existingItem, key, Len(h) + 1)
                               ELSE OK(h)
                  IN Then(reset, LAMBDA h1 :
                       deepMergeWithArrayReplacement(h1, Get(h1, existingItem, key), value))
             ELSE Assign(h, existingItem, key, value)
       IN Then(step, LAMBDA h1 : mergeItemKeys(h1, existingItem, item, ks, i + 1))

\* a faulty mergeByPropInArray: the last matching item is taken, not the first
mergeByPropInArray_LastMatch(h, target, item, prop) ==
  IF ~Truthy(item) \/ ~IsObject(h, item) \/ ~HasKey(h, item, prop)
  THEN PushClone(h, target, item)
  ELSE LET matches == {i \in 1..Len(h[target].items) :
                         /\ Truthy(h[target].items[i])
                         /\ IsObject(h, h[target].items[i])
                         /\ Get(h, h[target].items[i], prop) = Get(h, item, prop)}
       IN IF matches # {}
          THEN mergeItemKeys(h, h[target].items[CHOOSE i \in matches : \A j \in matches : j <= i],
                             item, OwnKeys(h, item), 1)
          ELSE PushClone(h, target, item)

mergeByPropInArray(h, target, item, prop) ==
  IF ~Truthy(item) \/ ~IsObject(h, item) \/ ~HasKey(h, item, prop)
  THEN PushClone(h, target, item)
  ELSE LET propValue == Get(h, item, prop)
           existingIndex == FindIndex(h, target, LAMBDA existingItem :
                              /\ Truthy(existingItem)
                              /\ IsObject(h, existingItem)
                              /\ Get(h, existingItem, prop) = propValue)
       IN IF existingIndex >= 1
          THEN mergeItemKeys(h, h[target].items[existingIndex], item, OwnKeys(h, item), 1)
          ELSE PushClone(h, target, item)

\* a faulty mergeByNameInArray: items are matched on 'id'
mergeByNameInArray_ById(h, target, item) == mergeByPropInArray(h, target, item, "id")

mergeByNameInArray(h, target, item) == mergeByPropInArray(h, target, item, "name")

\* a faulty mergeArraysByName: no item is looked up, all are appended
mergeArraysByName_AppendAll(h, target, source, i) == appendItems(h, target, source, i)

mergeArraysByName(h, target, source, i) ==
  IF i > Len(h[source].items) THEN OK(h)
  ELSE IF i > MaxIter THEN Diverge(h)
  ELSE LET sourceItem == h[source].items[i]
           step ==
             IF Truthy(sourceItem) /\ IsObject(h, sourceItem) /\ HasKey(h, sourceItem, "name")
             THEN LET existingIndex == FindIndex(h, target, LAMBDA item :
                                         /\ Truthy(item)
                                         /\ IsObject(h, item)
                                         /\ Get(h, item, "name") = Get(h, sourceItem, "name"))
                  IN IF existingIndex >= 1
                     THEN deepMergeWithArrayReplacement(h, h[target].items[existingIndex], sourceItem)
                     ELSE PushClone(h, target, sourceItem)
             ELSE PushClone(h, target, sourceItem)
       IN Then(step, LAMBDA h1 : mergeArraysByName(h1, target, source, i + 1))

\* a faulty deepMergeWithArrayReplacement: a field that holds no record is
\* set to an empty record and the fragment's record is not merged into it
deepMergeKeys_ResetOnly(h, target, source, ks, i) ==
  IF i > Len(ks) THEN OK(h)
  ELSE Then(IF IsNullish(target) THEN Throw(h)
            ELSE IF IsArray(h, Get(h, source, ks[i]))
            THEN IF IsArray(h, Get(h, target, ks[i]))
                 THEN appendItems(h, Get(h, target, ks[i]), Get(h, source, ks[i]), 1)
                 ELSE Assign(cloneDeep(h, Get(h, source, ks[i])).h, target, ks[i],
                             cloneDeep(h, Get(h, source, ks[i])).v)
            ELSE IF IsObject(h, Get(h, source, ks[i]))
            THEN IF ~IsObject(h, Get(h, target, ks[i])) \/ IsArray(h, Get(h, target, ks[i]))
                 THEN Assign(Append(h, EmptyCell("rec")), target, ks[i], Len(h) + 1)
                 ELSE deepMergeWithArrayReplacement(h, Get(h, target, ks[i]),
                                                    Get(h, source, ks[i]))
            ELSE Assign(h, target, ks[i], Get(h, source, ks[i])),
            LAMBDA h1 : deepMergeKeys(h1, target, source, ks, i + 1))

\* a faulty deepMergeWithArrayReplacement: a sequence the field holds is not
\* reset, the record of the fragment is merged into the sequence object
deepMergeKeys_KeepSequences(h, target, source, ks, i) ==
  IF i > Len(ks) THEN OK(h)
  ELSE Then(IF IsNullish(target) THEN Throw(h)
            ELSE IF IsArray(h, Get(h, source, ks[i]))
            THEN IF IsArray(h, Get(h, target, ks[i]))
                 THEN appendItems(h, Get(h, target, ks[i]), Get(h, source, ks[i]), 1)
                 ELSE Assign(cloneDeep(h, Get(h, source, ks[i])).h, target, ks[i],
                             cloneDeep(h, Get(h, source, ks[i])).v)
            ELSE IF IsObject(h, Get(h, source, ks[i]))
            THEN Then(IF ~IsObject(h, Get(h, target, ks[i]))
                      THEN Assign(Append(h, EmptyCell("rec")), target, ks[i], Len(h) + 1)
                      ELSE OK(h),
                      LAMBDA h1 : deepMergeWithArrayReplacement(h1, Get(h1, target, ks[i]),
                                                                Get(h1, source, ks[i])))
            ELSE Assign(h, target, ks[i], Get(h, source, ks[i])),
            LAMBDA h1 : deepMergeKeys(h1, target, source, ks, i + 1))

\* a faulty deepMergeWithArrayReplacement: a record of the fragment replaces
\* what the field holds (the field is always reset to {} first)
deepMergeKeys_ResetRecords(h, target, source, ks, i) ==
  IF i > Len(ks) THEN OK(h)
  ELSE Then(IF IsNullish(target) THEN Throw(h)
            ELSE IF IsArray(h, Get(h, source, ks[i]))
            THEN IF IsArray(h, Get(h, target, ks[i]))
                 THEN appendItems(h, Get(h, target, ks[i]), Get(h, source, ks[i]), 1)
                 ELSE Assign(cloneDeep(h, Get(h, source, ks[i])).h, target, ks[i],
                             cloneDeep(h, Get(h, source, ks[i])).v)
            ELSE IF IsObject(h, Get(h, source, ks[i]))
            THEN Then(Assign(Append(h, EmptyCell("rec")), target, ks[i], Len(h) + 1),
                      LAMBDA h1 : deepMergeWithArrayReplacement(h1, Get(h1, target, ks[i]),
                                                                Get(h1, source, ks[i])))
            ELSE Assign(h, target, ks[i], Get(h, source, ks[i])),
            LAMBDA h1 : deepMergeKeys(h1, target, source, ks, i + 1))

\* the body of deepMergeWithArrayReplacement's `for (const key in source)`
deepMergeKeys(h, target, source, ks, i) ==
  IF i > Len(ks) THEN OK(h)
  ELSE LET key == ks[i]
           value == Get(h, source, key)
           old == Get(h, target, key)
           step ==
             IF IsNullish(target) THEN Throw(h)
             ELSE IF IsArray(h, value)
             THEN IF IsArray(h, old)
                  THEN IF Len(h[value].items) > 0 /\ h[value].items[1] = null
                       THEN Throw(h)
                       ELSE IF /\ Len(h[value].items) > 0
                               /\ IsObject(h, h[value].items[1])
                               /\ HasKey(h, h[value].items[1], "name")
                       THEN mergeArraysByName(h, old, value, 1)
                       ELSE appendItems(h, old, value, 1)
                  ELSE LET c == cloneDeep(h, value) IN Assign(c.h, target, key, c.v)
             ELSE IF IsObject(h, value)
             THEN LET reset == IF ~Truthy(old) \/ ~IsObject(h, old) \/ IsArray(h, old)
                               THEN Assign(Append(h, EmptyCell("rec")), target, key, Len(h) + 1)
                               ELSE OK(h)
                  IN Then(reset, LAMBDA h1 :
                       LET propertyMergeInstructions == extractPropertyMergeInstructions(h1, value)
                       IN IF Len(propertyMergeInstructions) > 0
                          THEN mergeWithPropertyInstructions(h1, Get(h1, target, key), value,
                                                             propertyMergeInstructions)
                          ELSE deepMergeWithArrayReplacement(h1, Get(h1, target, key), value))
             ELSE Assign(h, target, key, value)
       IN Then(step, LAMBDA h1 : deepMergeKeys(h1, target, source, ks, i + 1))

deepMergeWithArrayReplacement(h, target, source) ==
  deepMergeKeys(h, target, source, OwnKeys(h, source), 1)

\* a faulty mergeItems: with no strategy set the items are merged by name,
\* as the default rule for an undeclared sequence does
mergeItems_DefaultByName(h, target, propertyName, sourceValue, instructions, i) ==
  IF i > Len(h[sourceValue].items) THEN OK(h)
  ELSE IF i > MaxIter THEN Diverge(h)
  ELSE Then(IF instructions.mergeByContents = "T"
            THEN mergeByContentsInArray(h, Get(h, target, propertyName), h[sourceValue].items[i])
            ELSE IF instructions.mergeByProp # ""
            THEN mergeByPropInArray(h, Get(h, target, propertyName), h[sourceValue].items[i],
                                    instructions.mergeByProp)
            ELSE mergeByNameInArray(h, Get(h, target, propertyName), h[sourceValue].items[i]),
            LAMBDA h1 : mergeItems(h1, target, propertyName, sourceValue, instructions, i + 1))

\* a faulty mergeItems: deepMerge is consulted, {deepMerge: false} turns the
\* strategies off and the items are appended
mergeItems_DeepFlag(h, target, propertyName, sourceValue, instructions, i) ==
  IF i > Len(h[sourceValue].items) THEN OK(h)
  ELSE IF i > MaxIter THEN Diverge(h)
  ELSE Then(IF instructions.deepMerge = "F"
            THEN PushClone(h, Get(h, target, propertyName), h[sourceValue].items[i])
            ELSE IF instructions.mergeByContents = "T"
            THEN mergeByContentsInArray(h, Get(h, target, propertyName), h[sourceValue].items[i])
            ELSE IF instructions.mergeByProp # ""
            THEN mergeByPropInArray(h, Get(h, target, propertyName), h[sourceValue].items[i],
                                    instructions.mergeByProp)
            ELSE IF instructions.mergeByName = "T"
            THEN mergeByNameInArray(h, Get(h, target, propertyName), h[sourceValue].items[i])
            ELSE PushClone(h, Get(h, target, propertyName), h[sourceValue].items[i]),
            LAMBDA h1 : mergeItems(h1, target, propertyName, sourceValue, instructions, i + 1))

\* a faulty mergeItems: mergeByName is looked at before the other strategies
mergeItems_NameFirst(h, target, propertyName, sourceValue, instructions, i) ==
  IF i > Len(h[sourceValue].items) THEN OK(h)
  ELSE IF i > MaxIter THEN Diverge(h)
  ELSE Then(IF instructions.mergeByName = "T"
            THEN mergeByNameInArray(h, Get(h, target, propertyName), h[sourceValue].items[i])
            ELSE IF instructions.mergeByContents = "T"
            THEN mergeByContentsInArray(h, Get(h, target, propertyName), h[sourceValue].items[i])
            ELSE IF instructions.mergeByProp # ""
            THEN mergeByPropInArray(h, Get(h, target, propertyName), h[sourceValue].items[i],
                                    instructions.mergeByProp)
            ELSE PushClone(h, Get(h, target, propertyName), h[sourceValue].items[i]),
            LAMBDA h1 : mergeItems(h1, target, propertyName, sourceValue, instructions, i + 1))

\* one strategy loop of mergeWithPropertyInstructions:
\* for (const item of sourceValue) <strategy>(target[propertyName], item)
mergeItems(h, target, propertyName, sourceValue, instructions, i) ==
  IF i > Len(h[sourceValue].items) THEN OK(h)
  ELSE IF i > MaxIter THEN Diverge(h)
  ELSE LET item == h[sourceValue].items[i]
           array == Get(h, target, propertyName)
           step ==
             IF instructions.mergeByContents = "T" THEN mergeByContentsInArray(h, array, item)
             ELSE IF instructions.mergeByProp # ""
             THEN mergeByPropInArray(h, array, item, instructions.mergeByProp)
             ELSE IF instructions.mergeByName = "T" THEN mergeByNameInArray(h, array, item)
             ELSE PushClone(h, array, item)
       IN Then(step, LAMBDA h1 :
            mergeItems(h1, target, propertyName, sourceValue, instructions, i + 1))

\* delete o[key]
Delete(h, o, key) ==
  [h EXCEPT ![o].props = SelectSeq(@, LAMBDA entry : entry[1] # key)]

\* the body of `for (const [propertyName, instructions] of Object.entries(...))`,
\* then the default merge of what is left of cleanSource
mergeDeclared(h, target, cleanSource, propertyInstructions, i) ==
  IF i > Len(propertyInstructions)
  THEN deepMergeWithArrayReplacement(h, target, cleanSource)
  ELSE LET propertyName == propertyInstructions[i][1]
           instructions == propertyInstructions[i][2]
           sourceValue == Get(h, cleanSource, propertyName)
           old == Get(h, target, propertyName)
           step ==
             IF ~HasKey(h, cleanSource, propertyName) THEN OK(h)
             ELSE Then(
               IF IsArray(h, sourceValue)
               THEN IF IsNullish(target) THEN Throw(h)
                    ELSE Then(IF ~Truthy(old) \/ ~IsArray(h, old)
                              THEN Assign(Append(h, EmptyCell("arr")), target, propertyName, Len(h) + 1)
                              ELSE OK(h),
                              LAMBDA h1 : mergeItems(h1, target, propertyName, sourceValue,
                                                     instructions, 1))
               ELSE IF IsObject(h, sourceValue)
               THEN IF IsNullish(target) THEN Throw(h)
                    ELSE Then(IF ~Truthy(old) \/ ~IsObject(h, old)
                              THEN Assign(Append(h, EmptyCell("rec")), target, propertyName, Len(h) + 1)
                              ELSE OK(h),
                              LAMBDA h1 : deepMergeWithArrayReplacement(
                                            h1, Get(h1, target, propertyName), sourceValue))
               ELSE IF IsNullish(target) THEN Throw(h)
               ELSE Assign(h, target, propertyName, sourceValue),
               LAMBDA h1 : OK(Delete(h1, cleanSource, propertyName)))
       IN Then(step, LAMBDA h1 : mergeDeclared(h1, target, cleanSource, propertyInstructions, i + 1))

\* cleanSource = { ...source } without its merge_* symbols: a new plain object
\* holding source's own string keys (the values are shared, not copied)
spreadClean(h, source) ==
  Append(h, [EmptyCell("rec") EXCEPT
               !.props = [i \in DOMAIN OwnKeys(h, source) |->
                            <<OwnKeys(h, source)[i], Get(h, source, OwnKeys(h, source)[i])>>]])

mergeWithPropertyInstructions(h, target, source, propertyInstructions) ==
  mergeDeclared(spreadClean(h, source), target, Len(h) + 1, propertyInstructions, 1)

mergeWithInstructions(h, target, source) ==
  IF ~Truthy(source) \/ ~IsObject(h, source) THEN OK(h)
  ELSE IF IsArray(h, source)
  THEN IF ~IsArray(h, target) THEN OK(h) ELSE appendItems(h, target, source, 1)
  ELSE LET propertyMergeInstructions == extractPropertyMergeInstructions(h, source)
       IN IF Len(propertyMergeInstructions) > 0
          THEN mergeWithPropertyInstructions(h, target, source, propertyMergeInstructions)
          ELSE deepMergeWithArrayReplacement(h, target, source)

(***************************************************************************)
(* Caller-side values.  A literal the caller writes (the source object, the *)
(* value a merge callback returns) is described by a node:                  *)
(*   t = "prim"   the primitive v                                           *)
(*   t = "rec"    { ...addInstructions(sy[1]), ..., kv[1][1]: kv[1][2], ...}*)
(*   t = "arr"    [ it[1], it[2], ... ]                                     *)
(*   t = "source" the value found in the caller's sourceObject at `path`    *)
(*                (the callback closes over the object it passed in)        *)
(*   t = "spread" { ...originalValue, kv[1][1]: kv[1][2], ... }             *)
(* Build evaluates a node: it allocates the containers the literal creates  *)
(* and returns the heap and the value.                                      *)
(***************************************************************************)
P(v) == [t |-> "prim", v |-> v, kv |-> <<>>, it |-> <<>>, sy |-> <<>>, path |-> <<>>]
RI(sy, kv) == [t |-> "rec", v |-> undefined, kv |-> kv, it |-> <<>>, sy |-> sy, path |-> <<>>]
R(kv) == RI(<<>>, kv)
A(it) == [t |-> "arr", v |-> undefined, kv |-> <<>>, it |-> it, sy |-> <<>>, path |-> <<>>]
SourceAt(path) == [t |-> "source", v |-> undefined, kv |-> <<>>, it |-> <<>>, sy |-> <<>>, path |-> path]
Spread(kv) == [t |-> "spread", v |-> undefined, kv |-> kv, it |-> <<>>, sy |-> <<>>, path |-> <<>>]

\* the options object of one addInstructions call
Options(prop, byContents, byProp, byName, deep) ==
  [prop |-> prop, mergeByContents |-> byContents, mergeByProp |-> byProp,
   mergeByName |-> byName, deepMerge |-> deep]

RECURSIVE Build(_, _, _)
RECURSIVE buildFields(_, _, _, _, _)
RECURSIVE buildItems(_, _, _, _, _)
RECURSIVE buildSyms(_, _, _, _)

buildSyms(h, o, sy, i) ==
  IF i > Len(sy) THEN h
  ELSE buildSyms(PutSym(h, o, sy[i].prop, addInstructions(sy[i])), o, sy, i + 1)

buildFields(h, env, o, kv, i) ==
  IF i > Len(kv) THEN [h |-> h, v |-> o]
  ELSE LET b == Build(h, env, kv[i][2])
       IN buildFields(Put(b.h, o, kv[i][1], b.v), env, o, kv, i + 1)

buildItems(h, env, o, it, i) ==
  IF i > Len(it) THEN [h |-> h, v |-> o]
  ELSE LET b == Build(h, env, it[i])
       IN buildItems(Push(b.h, o, b.v), env, o, it, i + 1)

Build(h, env, node) ==
  IF node.t = "prim" THEN [h |-> h, v |-> node.v]
  ELSE IF node.t = "source"
  THEN [h |-> h, v |-> baseGet(h, env.sourceObject, node.path, 1)]
  ELSE IF node.t = "arr"
  THEN buildItems(Append(h, EmptyCell("arr")), env, Len(h) + 1, node.it, 1)
  ELSE IF node.t = "spread"
  THEN LET o == env.originalValue
           copy == IF IsRef(o)
                   THEN [EmptyCell("rec") EXCEPT
                           !.props = [i \in DOMAIN OwnKeys(h, o) |->
                                        <<OwnKeys(h, o)[i], Get(h, o, OwnKeys(h, o)[i])>>],
                           !.syms = h[o].syms]
                   ELSE EmptyCell("rec")
       IN buildFields(Append(h, copy), env, Len(h) + 1, node.kv, 1)
  ELSE buildFields(buildSyms(Append(h, EmptyCell("rec")), Len(h) + 1, node.sy, 1),
                   env, Len(h) + 1, node.kv, 1)

(***************************************************************************)
(* What the caller may pass.  `inputs` names a family of calls; for each    *)
(* family: the source objects, the findKey selectors, the values the merge  *)
(* callbacks return, the comment callbacks, and how many change calls       *)
(* annotate may make.  A call is drawn by its position in these sequences.  *)
(***************************************************************************)
\* a comment callback: not supplied, returning undefined, or returning a directive
NoComment == [kind |-> "absent", text |-> "", direction |-> ""]
CommentUndefined == [kind |-> "undefined", text |-> "", direction |-> ""]
Directive(text, direction) == [kind |-> "directive", text |-> text, direction |-> direction]

\* "config": small configuration objects; selectors that reach the root, a
\* nested object, a missing key, an array, a primitive and a symbol; merge
\* callbacks that return fresh literals or a part of the caller's own source
MaxChanges == 2

ConfigSources ==
  << R(<< <<"a", R(<< <<"v", P(Prim(1))>> >>)>>, <<"items", A(<<P(Prim(1))>>)>> >>),
     R(<< <<"a", R(<< <<"v", P(Prim(1))>>, <<"w", A(<<P(Prim(2))>>)>> >>)>>, <<"b", P(Prim(2))>> >>) >>

ConfigFindKeys ==
  << <<>>, << <<"a">> >>, << <<"c">> >>, << <<"items">> >>, << <<"a", "v">> >>, << <<SymbolKey>> >> >>

ConfigMerges ==
  << R(<< <<"v", P(Prim(3))>> >>),
     R(<< <<"c", R(<< <<"w", A(<<P(Prim(3))>>)>> >>)>> >>),
     SourceAt(<<"a">>),
     A(<<P(Prim(3))>>),
     P(Prim(4)) >>

ConfigComments == <<NoComment, Directive("t1", "right")>>

\* "arrays": a source { items: T } and one change at the root whose merge
\* callback returns { ...addInstructions(policy), items: F }; T and F are all
\* the sequences of ArrayItems up to MaxTarget and MaxFragment long
MaxTarget == 2
MaxFragment == 2

ArrayItems ==
  << P(Prim(1)),
     R(<< <<"name", P(Prim(1))>>, <<"v", P(Prim(1))>> >>),
     R(<< <<"name", P(Prim(1))>>, <<"v", P(Prim(2))>>, <<"w", A(<<P(Prim(2))>>)>> >>),
     R(<< <<"v", P(Prim(1))>>, <<"w", A(<<P(Prim(1))>>)>> >>) >>

\* the addInstructions calls spread into the fragment (<<>>: none, the
\* property is undeclared)
ArrayPolicies ==
  << <<>>,
     <<Options("items", "T", "", "U", "U")>>,
     <<Options("items", "U", "name", "U", "U")>>,
     <<Options("items", "U", "v", "U", "U")>>,
     <<Options("items", "U", "", "T", "U")>>,
     <<Options("items", "U", "", "U", "U")>>,
     <<Options("items", "T", "v", "T", "U")>>,
     <<Options("items", "U", "v", "T", "U")>>,
     <<Options("items", "F", "", "T", "U")>> >>

RECURSIVE Power(_, _)
Power(n, e) == IF e = 0 THEN 1 ELSE n * Power(n, e - 1)

\* all sequences over `items` of length len, then of length up to len
SeqsOfLen(items, len) ==
  [j \in 1..Power(Len(items), len) |->
     [d \in 1..len |-> items[(((j - 1) \div Power(Len(items), d - 1)) % Len(items)) + 1]]]
RECURSIVE SeqsUpTo(_, _)
SeqsUpTo(items, len) ==
  IF len = 0 THEN SeqsOfLen(items, 0) ELSE SeqsUpTo(items, len - 1) \o SeqsOfLen(items, len)

ArraySources ==
  LET targets == SeqsUpTo(ArrayItems, MaxTarget)
  IN [i \in DOMAIN targets |-> R(<< <<"items", A(targets[i])>> >>)]

ArrayMerges ==
  LET fragments == SeqsUpTo(ArrayItems, MaxFragment)
      n == Len(fragments)
  IN [j \in 1..(Len(ArrayPolicies) * n) |->
        RI(ArrayPolicies[((j - 1) \div n) + 1],
           << <<"items", A(fragments[((j - 1) % n) + 1])>> >>)]

\* "comments": up to MaxSteps changes at the root, at a record and at a
\* scalar, each with every kind of comment callback
MaxSteps == 3

CommentSources == << ConfigSources[1] >>
CommentFindKeys == << <<>>, << <<"a">> >>, << <<"a", "v">> >> >>
CommentMerges == << R(<< <<"v", P(Prim(3))>> >>) >>
CommentComments ==
  << NoComment, CommentUndefined, Directive("t1", "right"), Directive("t2", "up") >>

\* "steps": up to MaxSteps changes that build on one another: at the root,
\* at a record, at a key that is missing until a change creates it, and
\* below that key; the merge callbacks return fresh literals or spread the
\* value they were given
StepSources == << ConfigSources[1] >>
StepFindKeys == << <<>>, << <<"a">> >>, << <<"c">> >>, << <<"c", "w">> >> >>
StepMerges ==
  << R(<< <<"v", P(Prim(3))>> >>),
     R(<< <<"c", R(<< <<"w", R(<< <<"v", P(Prim(3))>> >>)>> >>)>> >>),
     R(<< <<"items", A(<<P(Prim(3))>>)>> >>),
     Spread(<< <<"b", P(Prim(2))>> >>) >>

\* "paths": one change; selectors that return the root, read one, two and
\* three nested fields, an item of a sequence, a field of a scalar, a field
\* of a missing value (with and without `?.`), a symbol, and two chains
PathSources ==
  << R(<< <<"a", R(<< <<"b", R(<< <<"c", R(<< <<"v", P(Prim(1))>> >>)>> >>)>> >>)>>,
          <<"items", A(<<R(<< <<"v", P(Prim(1))>> >>)>>)>>,
          <<"b", P(Prim(2))>> >>),
     R(<< <<"items", A(<<P(falsy)>>)>>, <<"b", P(null)>> >>) >>
PathFindKeys ==
  << <<>>,
     << <<"a">> >>,
     << <<"a", "b">> >>,
     << <<"a", "b", "c">> >>,
     << <<"a", OptionalMark, "b", OptionalMark, "c">> >>,
     << <<"items", "0">> >>,
     << <<"items", "0", "v">> >>,
     << <<"b", "v">> >>,
     << <<"b", OptionalMark, "v">> >>,
     << <<"a", SymbolKey>> >>,
     << <<SymbolKey, "a">> >>,
     << <<"b", SymbolKey>> >>,
     << <<"b">>, <<"a", "b">> >> >>
PathMerges == << P(Prim(4)), R(<< <<"v", P(Prim(3))>> >>) >>
PathComments == << NoComment, Directive("t1", "right") >>

\* "kinds": one change; the value at the resolved path is the root, a
\* record, a sequence, a scalar or null, and the fragment is a record (with
\* a record, a sequence or null where the target holds another kind), a
\* sequence, a scalar or null
KindSources ==
  << R(<< <<"a", R(<< <<"v", P(Prim(1))>> >>)>>,
          <<"items", A(<<P(Prim(1))>>)>>,
          <<"b", P(Prim(2))>>,
          <<"c", P(null)>> >>) >>
KindFindKeys == << <<>>, << <<"a">> >>, << <<"items">> >>, << <<"b">> >>, << <<"c">> >> >>
KindMerges ==
  << R(<< <<"v", P(Prim(3))>> >>),
     R(<< <<"items", A(<<P(Prim(3))>>)>> >>),
     R(<< <<"items", A(<<P(null)>>)>> >>),
     R(<< <<"items", R(<< <<"v", P(Prim(3))>> >>)>>, <<"a", A(<<P(null)>>)>> >>),
     R(<< <<"b", R(<< <<"v", P(Prim(3))>> >>)>>, <<"c", R(<< <<"w", P(null)>> >>)>> >>),
     R(<< <<"b", A(<<P(Prim(3))>>)>>, <<"c", A(<<P(Prim(3))>>)>>, <<"w", A(<<P(Prim(3))>>)>> >>),
     R(<< <<"items", A(<<P(Prim(1)), P(null), P(Prim(1))>>)>> >>),
     R(<< <<"a", R(<< <<"w", P(Prim(3))>> >>)>>, <<"w", R(<< <<"v", P(Prim(3))>> >>)>> >>),
     A(<<P(Prim(3)), P(null)>>),
     P(Prim(4)),
     P(null) >>
KindComments == << NoComment, Directive("t1", "right") >>

\* "levels": changes at the root whose fragment holds a record carrying
\* {prop: 'items', mergeByContents: true} with an `items` whose contents the
\* target already holds; the carrying record is the fragment itself, the
\* value of an undeclared property, the value of a declared property, an
\* item matched under mergeByProp, an item matched by the name heuristic
ByContents(prop) == Options(prop, "T", "", "U", "U")
LevelSources ==
  << R(<< <<"items", A(<<P(Prim(2)), P(Prim(1))>>)>>,
          <<"a", R(<< <<"items", A(<<P(Prim(2)), P(Prim(1))>>)>> >>)>>,
          <<"c", A(<<R(<< <<"id", P(Prim(1))>>, <<"name", P(Prim(1))>>,
                          <<"items", A(<<P(Prim(2)), P(Prim(1))>>)>> >>)>>)>> >>) >>
LevelMerges ==
  << RI(<<ByContents("items")>>, << <<"items", A(<<P(Prim(1))>>)>> >>),
     R(<< <<"a", RI(<<ByContents("items")>>, << <<"items", A(<<P(Prim(1))>>)>> >>)>> >>),
     RI(<<ByContents("a")>>,
        << <<"a", RI(<<ByContents("items")>>, << <<"items", A(<<P(Prim(1))>>)>> >>)>> >>),
     RI(<<Options("c", "U", "id", "U", "U")>>,
        << <<"c", A(<<RI(<<ByContents("items")>>,
                         << <<"id", P(Prim(1))>>, <<"items", A(<<P(Prim(1))>>)>> >>)>>)>> >>),
     R(<< <<"c", A(<<RI(<<ByContents("items")>>,
                        << <<"name", P(Prim(1))>>, <<"items", A(<<P(Prim(1))>>)>> >>)>>)>> >>) >>
LevelComments == << NoComment, Directive("t1", "right") >>

\* "attach": changes at the root whose fragment declares one policy for
\* its one property; the property is named by a word or holds a '-'
AttachNames == <<"items", "my-prop">>
AttachPolicies(prop) ==
  << Options(prop, "T", "", "U", "U"),
     Options(prop, "U", "id", "U", "U"),
     Options(prop, "U", "", "T", "U"),
     Options(prop, "F", "", "U", "T") >>
AttachSources ==
  << R(<< <<"items", A(<<P(Prim(1))>>)>>, <<"my-prop", A(<<P(Prim(1))>>)>> >>) >>
AttachMerges ==
  [j \in 1..(Len(AttachNames) * 4) |->
     LET prop == AttachNames[((j - 1) \div 4) + 1]
     IN RI(<<AttachPolicies(prop)[((j - 1) % 4) + 1]>>, << <<prop, A(<<P(Prim(1))>>)>> >>)]

\* "flags": one change at the root; the fragment declares for `items` one
\* of the strategies (or none) with deepMerge true, false or absent, and
\* its items hold a nested record
FlagSources ==
  << R(<< <<"items", A(<<R(<< <<"name", P(Prim(1))>>,
                              <<"c", R(<< <<"v", P(Prim(1))>>, <<"w", P(Prim(1))>> >>)>> >>)>>)>> >>),
     R(<< <<"items", A(<<>>)>> >>) >>
FlagStrategies ==
  << <<"T", "", "U">>, <<"U", "name", "U">>, <<"U", "", "T">>, <<"U", "", "U">> >>
FlagValues == <<"U", "T", "F">>
FlagFragments ==
  << A(<<R(<< <<"name", P(Prim(1))>>, <<"c", R(<< <<"v", P(Prim(2))>> >>)>> >>)>>),
     A(<<R(<< <<"name", P(Prim(2))>>, <<"c", R(<< <<"v", P(Prim(2))>> >>)>> >>)>>),
     A(<<P(Prim(1))>>) >>
FlagMerges ==
  [j \in 1..(Len(FlagStrategies) * Len(FlagValues) * Len(FlagFragments)) |->
     LET strategy == FlagStrategies[((j - 1) \div (Len(FlagValues) * Len(FlagFragments))) + 1]
         deep == FlagValues[(((j - 1) \div Len(FlagFragments)) % Len(FlagValues)) + 1]
     IN RI(<<Options("items", strategy[1], strategy[2], strategy[3], deep)>>,
           << <<"items", FlagFragments[((j - 1) % Len(FlagFragments)) + 1]>> >>)]

\* "fields": one change at the root under mergeByProp: 'name' or
\* mergeByName; the fragment's item has the name of the existing item (or
\* another one) and one more field, which is a scalar, a sequence or a
\* record where the existing item holds a scalar, a sequence, a record or
\* nothing
FieldSources ==
  << R(<< <<"items", A(<<R(<< <<"name", P(Prim(1))>>,
                              <<"v", P(Prim(1))>>,
                              <<"w", A(<<P(Prim(1))>>)>>,
                              <<"c", R(<< <<"v", P(Prim(1))>>, <<"w", P(Prim(1))>> >>)>> >>)>>)>> >>) >>
FieldPolicies ==
  << Options("items", "U", "name", "U", "U"), Options("items", "U", "", "T", "U") >>
FieldNamesGiven == << Prim(1), Prim(2) >>
FieldsGiven ==
  << <<"v", P(Prim(2))>>,
     <<"w", A(<<P(Prim(2))>>)>>,
     <<"c", R(<< <<"v", P(Prim(2))>> >>)>>,
     <<"c", R(<< <<"w", A(<<P(Prim(2))>>)>> >>)>>,
     <<"w", R(<< <<"v", P(Prim(2))>> >>)>>,
     <<"c", A(<<P(Prim(2))>>)>>,
     <<"v", R(<< <<"v", P(Prim(2))>> >>)>>,
     <<"b", R(<< <<"v", P(Prim(2))>> >>)>> >>
FieldMerges ==
  [j \in 1..(Len(FieldPolicies) * Len(FieldNamesGiven) * Len(FieldsGiven)) |->
     LET policy == FieldPolicies[((j - 1) \div (Len(FieldNamesGiven) * Len(FieldsGiven))) + 1]
         name == FieldNamesGiven[(((j - 1) \div Len(FieldsGiven)) % Len(FieldNamesGiven)) + 1]
     IN RI(<<policy>>,
           << <<"items", A(<<R(<< <<"name", P(name)>>,
                                  FieldsGiven[((j - 1) % Len(FieldsGiven)) + 1] >>)>>)>> >>)]
FieldComments == << NoComment, Directive("t1", "right") >>

\* "declared": one change at the root; the fragment has one record-valued
\* property with a policy declared for it; the target holds at the
\* property a record, a sequence, a scalar or nothing, and the record given
\* is plain or carries {prop: 'items', mergeByContents: true}
DeclaredSources ==
  << R(<< <<"a", R(<< <<"v", P(Prim(1))>>, <<"items", A(<<P(Prim(1))>>)>> >>)>>,
          <<"items", A(<<P(Prim(1))>>)>>,
          <<"b", P(Prim(2))>> >>) >>
DeclaredProps == << "a", "items", "b", "w" >>
DeclaredPolicies(prop) ==
  << Options(prop, "T", "", "U", "U"),
     Options(prop, "U", "name", "U", "U"),
     Options(prop, "U", "", "T", "U"),
     Options(prop, "U", "", "U", "U") >>
DeclaredRecords ==
  << R(<< <<"v", P(Prim(3))>> >>),
     RI(<<ByContents("items")>>, << <<"items", A(<<P(Prim(1))>>)>> >>) >>
DeclaredMerges ==
  [j \in 1..(Len(DeclaredProps) * 4 * Len(DeclaredRecords)) |->
     LET prop == DeclaredProps[((j - 1) \div (4 * Len(DeclaredRecords))) + 1]
     IN RI(<<DeclaredPolicies(prop)[(((j - 1) \div Len(DeclaredRecords)) % 4) + 1]>>,
           << <<prop, DeclaredRecords[((j - 1) % Len(DeclaredRecords)) + 1]>> >>)]
DeclaredComments == << NoComment, Directive("t1", "right") >>

\* "plain": one change at the root; the fragment declares for `items` a
\* policy that sets no strategy, and the target holds at `items` a sequence
\* with a named record, a scalar, a record, null or nothing
PlainSources ==
  << R(<< <<"items", A(<<R(<< <<"name", P(Prim(1))>>, <<"v", P(Prim(1))>> >>)>>)>> >>),
     R(<< <<"items", P(Prim(2))>> >>),
     R(<< <<"items", R(<< <<"v", P(Prim(1))>> >>)>> >>),
     R(<< <<"items", P(null)>> >>),
     R(<< <<"b", P(Prim(2))>> >>) >>
PlainPolicies ==
  << Options("items", "U", "", "U", "U"),
     Options("items", "F", "", "F", "U"),
     Options("items", "U", "", "U", "T") >>
PlainFragments ==
  << A(<<R(<< <<"name", P(Prim(1))>>, <<"v", P(Prim(2))>> >>)>>),
     A(<<R(<< <<"name", P(Prim(1))>>, <<"v", P(Prim(1))>> >>),
         R(<< <<"name", P(Prim(1))>>, <<"v", P(Prim(1))>> >>)>>),
     A(<<P(Prim(1)), P(null)>>),
     A(<<>>) >>
PlainMerges ==
  [j \in 1..(Len(PlainPolicies) * Len(PlainFragments)) |->
     RI(<<PlainPolicies[((j - 1) \div Len(PlainFragments)) + 1]>>,
        << <<"items", PlainFragments[((j - 1) % Len(PlainFragments)) + 1]>> >>)]

\* "shared": up to MaxSteps changes at two paths the source does not hold
\* and at one it holds; the merge callback returns a record of its own or
\* an object it keeps between the calls (here a record of the caller's
\* source object)
SharedSources == << R(<< <<"a", R(<< <<"v", P(Prim(1))>> >>)>> >>) >>
SharedFindKeys == << << <<"c">> >>, << <<"b">> >>, << <<"a">> >> >>
SharedMerges == << SourceAt(<<"a">>), R(<< <<"v", P(Prim(3))>> >>) >>

\* "markers": up to MaxChanges changes at the root, at a record and at a
\* path the source does not hold; the fragment carries an entry itself, in
\* a nested record, or in an item of a sequence whose id is new or known
MarkerSources ==
  << R(<< <<"a", R(<< <<"items", A(<<P(Prim(2))>>)>> >>)>>,
          <<"items", A(<<P(Prim(2))>>)>>,
          <<"c", A(<<R(<< <<"id", P(Prim(1))>> >>)>>)>> >>) >>
MarkerFindKeys == << <<>>, << <<"a">> >>, << <<"b">> >> >>
MarkerItems(id) ==
  A(<<RI(<<ByContents("items")>>,
         << <<"id", P(id)>>, <<"items", A(<<P(Prim(1))>>)>> >>)>>)
MarkerMerges ==
  << RI(<<ByContents("items")>>, << <<"items", A(<<P(Prim(1))>>)>> >>),
     R(<< <<"a", RI(<<ByContents("items")>>, << <<"items", A(<<P(Prim(1))>>)>> >>)>> >>),
     R(<< <<"c", MarkerItems(Prim(2))>> >>),
     RI(<<Options("c", "U", "id", "U", "U")>>, << <<"c", MarkerItems(Prim(2))>> >>),
     RI(<<Options("c", "U", "id", "U", "U")>>, << <<"c", MarkerItems(Prim(1))>> >>) >>

\* "twice": up to MaxChanges changes at the root, at a record and at a
\* scalar; the fragment is a record without entries whose fields are
\* scalars, records, or sequences (empty, of scalars, of named records)
\* where the target holds a scalar, a record, a sequence, null or nothing
TwiceSources ==
  << R(<< <<"a", R(<< <<"v", P(Prim(1))>>, <<"w", R(<< <<"v", P(Prim(1))>> >>)>> >>)>>,
          <<"items", A(<<P(Prim(1))>>)>>,
          <<"b", P(Prim(2))>>,
          <<"c", P(null)>>,
          <<"d", A(<<R(<< <<"name", P(Prim(1))>>, <<"v", P(Prim(1))>> >>)>>)>> >>) >>
TwiceFindKeys == << <<>>, << <<"a">> >>, << <<"b">> >> >>
TwiceMerges ==
  << R(<< <<"v", P(Prim(3))>> >>),
     R(<< <<"a", R(<< <<"w", R(<< <<"v", P(Prim(3))>> >>)>> >>)>>,
          <<"b", R(<< <<"v", P(Prim(3))>> >>)>> >>),
     R(<< <<"c", R(<< <<"w", P(null)>> >>)>>, <<"items", R(<< <<"v", P(Prim(3))>> >>)>> >>),
     R(<< <<"items", A(<<>>)>>, <<"w", A(<<>>)>> >>),
     R(<< <<"items", A(<<P(Prim(3))>>)>> >>),
     R(<< <<"w", A(<<P(Prim(3))>>)>> >>),
     R(<< <<"a", R(<< <<"items", A(<<P(Prim(3))>>)>> >>)>> >>),
     R(<< <<"d", A(<<R(<< <<"name", P(Prim(1))>>, <<"v", P(Prim(3))>> >>)>>)>> >>),
     R(<< <<"d", A(<<R(<< <<"name", P(Prim(2))>> >>), P(Prim(3))>>)>> >>) >>

SourcesOf(family) ==
  CASE family = "arrays" -> ArraySources
    [] family = "twice" -> TwiceSources
    [] family = "markers" -> MarkerSources
    [] family = "shared" -> SharedSources
    [] family = "plain" -> PlainSources
    [] family = "declared" -> DeclaredSources
    [] family = "fields" -> FieldSources
    [] family = "flags" -> FlagSources
    [] family = "attach" -> AttachSources
    [] family = "levels" -> LevelSources
    [] family = "kinds" -> KindSources
    [] family = "paths" -> PathSources
    [] family = "comments" -> CommentSources
    [] family = "steps" -> StepSources
    [] OTHER -> ConfigSources
FindKeysOf(family) ==
  CASE family = "arrays" -> << <<>> >>
    [] family = "twice" -> TwiceFindKeys
    [] family = "markers" -> MarkerFindKeys
    [] family = "shared" -> SharedFindKeys
    [] family = "plain" -> << <<>> >>
    [] family = "declared" -> << <<>> >>
    [] family = "fields" -> << <<>> >>
    [] family = "flags" -> << <<>> >>
    [] family = "attach" -> << <<>> >>
    [] family = "levels" -> << <<>> >>
    [] family = "kinds" -> KindFindKeys
    [] family = "paths" -> PathFindKeys
    [] family = "comments" -> CommentFindKeys
    [] family = "steps" -> StepFindKeys
    [] OTHER -> ConfigFindKeys
MergesOf(family) ==
  CASE family = "arrays" -> ArrayMerges
    [] family = "twice" -> TwiceMerges
    [] family = "markers" -> MarkerMerges
    [] family = "shared" -> SharedMerges
    [] family = "plain" -> PlainMerges
    [] family = "declared" -> DeclaredMerges
    [] family = "fields" -> FieldMerges
    [] family = "flags" -> FlagMerges
    [] family = "attach" -> AttachMerges
    [] family = "levels" -> LevelMerges
    [] family = "kinds" -> KindMerges
    [] family = "paths" -> PathMerges
    [] family = "comments" -> CommentMerges
    [] family = "steps" -> StepMerges
    [] OTHER -> ConfigMerges
CommentsOf(family) ==
  CASE family = "arrays" -> <<NoComment>>
    [] family = "twice" -> <<NoComment>>
    [] family = "markers" -> <<NoComment>>
    [] family = "shared" -> <<NoComment>>
    [] family = "plain" -> <<NoComment>>
    [] family = "declared" -> DeclaredComments
    [] family = "fields" -> FieldComments
    [] family = "flags" -> <<NoComment>>
    [] family = "attach" -> <<NoComment>>
    [] family = "levels" -> LevelComments
    [] family = "kinds" -> KindComments
    [] family = "paths" -> PathComments
    [] family = "comments" -> CommentComments
    [] family = "steps" -> <<NoComment>>
    [] OTHER -> ConfigComments
MaxChangesOf(family) ==
  CASE family = "arrays" -> 1
    [] family = "twice" -> MaxChanges
    [] family = "markers" -> MaxChanges
    [] family = "shared" -> MaxSteps
    [] family = "plain" -> 1
    [] family = "declared" -> 1
    [] family = "fields" -> 1
    [] family = "flags" -> 1
    [] family = "kinds" -> 1
    [] family = "paths" -> 1
    [] family = "comments" -> MaxSteps
    [] family = "steps" -> MaxSteps
    [] OTHER -> MaxChanges

(***************************************************************************)
(* updateObject({sourceObject, annotate}).                                  *)
(*                                                                          *)
(*   heap         the JavaScript heap                                       *)
(*   sourceObject the caller's object                                       *)
(*   result       the deep clone updateObject works on                      *)
(*   comments     the comment log                                           *)
(*   pc           "annotate": annotate is running and may call change       *)
(*                "returned": updateObject returned {result, comments}      *)
(*                "thrown"  : an error propagated out of updateObject       *)
(*                "diverged": a change never returned                       *)
(*   inputs       the family the caller's arguments are drawn from          *)
(*   source       which source object the caller passed                     *)
(*   pre          the heap as the last change call found it                 *)
(*   calls        the change calls made so far: which findKey, merge and    *)
(*                comment were passed, the path resolved, the value handed  *)
(*                to the merge callback, the value it returned, and how the *)
(*                call ended                                                *)
(***************************************************************************)
VARIABLES heap, sourceObject, result, comments, pc, inputs, source, pre, calls

vars == <<heap, sourceObject, result, comments, pc, inputs, source, pre, calls>>

\* the state after construction: the caller built sourceObject, updateObject
\* cloned it and is about to run annotate
Start(family, s) ==
  LET b == Build(<<>>, [sourceObject |-> undefined, originalValue |-> undefined],
                 SourcesOf(family)[s])
      c == cloneDeep(b.h, b.v)
  IN /\ inputs = family
     /\ source = s
     /\ heap = c.h
     /\ pre = c.h
     /\ sourceObject = b.v
     /\ result = c.v
     /\ comments = <<>>
     /\ calls = <<>>
     /\ pc = "annotate"

\* the merge step of one change call: the heap it leaves, how it ended, and
\* what the merge callback was given and returned
Merged(m, originalValue, sourceValue) ==
  [h |-> m.h, st |-> m.st, originalValue |-> originalValue, sourceValue |-> sourceValue]

\* _.set(result, createPathString(path), value) once the merge has ended
\* normally; the root itself is never re-installed
Install(m, path, value) ==
  IF m.st = "ok" /\ Len(path) > 0
  THEN [m EXCEPT !.h = lodashSet(m.h, result, createPathString(path), value)]
  ELSE m

\* a faulty change: what the callback returned is written back at the path
\* after the merge
MergeInto_WriteBackFragment(path, originalValue, b) ==
  IF Len(path) > 0 /\ originalValue = undefined
  THEN Merged(Install(OK(b.h), path, b.v), originalValue, b.v)
  ELSE Merged(Install(mergeWithInstructions(b.h, originalValue, b.v), path, b.v),
              originalValue, b.v)

\* a faulty change: where the path holds no value a deep copy of what the
\* callback returned is installed
MergeInto_InstallClone(path, originalValue, b) ==
  IF Len(path) > 0 /\ originalValue = undefined
  THEN Merged(Install(OK(cloneDeep(b.h, b.v).h), path, cloneDeep(b.h, b.v).v),
              originalValue, b.v)
  ELSE Merged(Install(mergeWithInstructions(b.h, originalValue, b.v), path, originalValue),
              originalValue, b.v)

\* what follows `sourceValue = merge(originalValue)`; b is the heap and the
\* value the callback left
MergeInto(path, originalValue, b) ==
  IF Len(path) > 0 /\ originalValue = undefined
  THEN Merged(Install(OK(b.h), path, b.v), originalValue, b.v)
  ELSE Merged(Install(mergeWithInstructions(b.h, originalValue, b.v), path, originalValue),
              originalValue, b.v)

MergeAt(h, path, originalValue, merge) ==
  MergeInto(path, originalValue,
            Build(h, [sourceObject |-> sourceObject, originalValue |-> originalValue], merge))

\* a faulty HandleMerge: the value handed to the merge callback is read from
\* the caller's source object
HandleMerge_FromSource(h, path, merge) ==
  MergeAt(h, path,
          IF Len(path) = 0 THEN result ELSE lodashGet(h, sourceObject, createPathString(path)),
          merge)

HandleMerge(h, path, merge) ==
  MergeAt(h, path,
          IF Len(path) = 0 THEN result ELSE lodashGet(h, result, createPathString(path)),
          merge)

\* a faulty HandleComment: the record is put in front of the log
HandleComment_Prepend(log, path, comment) ==
  IF comment.kind = "directive"
  THEN <<[path |-> path, comment |-> comment.text, direction |-> comment.direction]>> \o log
  ELSE log

\* comments.push(...) when the callback is supplied and returns a directive
HandleComment(log, path, comment) ==
  IF comment.kind = "directive"
  THEN Append(log, [path |-> path, comment |-> comment.text, direction |-> comment.direction])
  ELSE log

\* the entry the call leaves in the history
Called(f, g, c, st, path, originalValue, sourceValue) ==
  [findKey |-> f, merge |-> g, comment |-> c, st |-> st, path |-> path,
   originalValue |-> originalValue, sourceValue |-> sourceValue]

\* the state a change call leaves: found is what findKeyByProxy returned,
\* m what the merge step returned
Changed(f, g, c, found, m) ==
  IF found.st # "ok"
  THEN /\ pc' = "thrown"
       /\ calls' = Append(calls, Called(f, g, c, "nopath", found.path, undefined, undefined))
       /\ UNCHANGED <<heap, comments>>
  ELSE /\ comments' = HandleComment(comments, found.path, CommentsOf(inputs)[c])
       /\ heap' = m.h
       /\ pc' = IF m.st = "ok" THEN "annotate"
                ELSE IF m.st = "throw" THEN "thrown" ELSE "diverged"
       /\ calls' = Append(calls, Called(f, g, c, m.st, found.path,
                                        m.originalValue, m.sourceValue))

ChangeAt(f, g, c, found) ==
  Changed(f, g, c, found, HandleMerge(heap, found.path, MergesOf(inputs)[g]))

\* change({findKey, merge, comment}), from the call to its return (or throw);
\* f, g, c: which selector, merge callback and comment callback are passed
Change(f, g, c) ==
  /\ pc = "annotate"
  /\ Len(calls) < MaxChangesOf(inputs)
  /\ ChangeAt(f, g, c, findKeyByProxy(heap, result, FindKeysOf(inputs)[f]))
  /\ pre' = heap
  /\ UNCHANGED <<sourceObject, result, inputs, source>>

\* annotate returns (or was not supplied): return { result, comments }
Return ==
  /\ pc = "annotate"
  /\ pc' = "returned"
  /\ UNCHANGED <<heap, sourceObject, result, comments, inputs, source, pre, calls>>

Next ==
  \/ \E f \in DOMAIN FindKeysOf(inputs), g \in DOMAIN MergesOf(inputs),
        c \in DOMAIN CommentsOf(inputs) : Change(f, g, c)
  \/ Return

Init == \E s \in DOMAIN SourcesOf("config") : Start("config", s)

Spec == Init /\ [][Next]_vars

InitArrays == \E s \in DOMAIN SourcesOf("arrays") : Start("arrays", s)

SpecArrays == InitArrays /\ [][Next]_vars

InitComments == \E s \in DOMAIN SourcesOf("comments") : Start("comments", s)

SpecComments == InitComments /\ [][Next]_vars

InitPaths == \E s \in DOMAIN SourcesOf("paths") : Start("paths", s)

SpecPaths == InitPaths /\ [][Next]_vars

InitKinds == \E s \in DOMAIN SourcesOf("kinds") : Start("kinds", s)

SpecKinds == InitKinds /\ [][Next]_vars

InitLevels == \E s \in DOMAIN SourcesOf("levels") : Start("levels", s)

SpecLevels == InitLevels /\ [][Next]_vars

InitAttach == \E s \in DOMAIN SourcesOf("attach") : Start("attach", s)

SpecAttach == InitAttach /\ [][Next]_vars

InitFlags == \E s \in DOMAIN SourcesOf("flags") : Start("flags", s)

SpecFlags == InitFlags /\ [][Next]_vars

InitFields == \E s \in DOMAIN SourcesOf("fields") : Start("fields", s)

SpecFields == InitFields /\ [][Next]_vars

InitDeclared == \E s \in DOMAIN SourcesOf("declared") : Start("declared", s)

SpecDeclared == InitDeclared /\ [][Next]_vars

InitPlain == \E s \in DOMAIN SourcesOf("plain") : Start("plain", s)

SpecPlain == InitPlain /\ [][Next]_vars

InitShared == \E s \in DOMAIN SourcesOf("shared") : Start("shared", s)

SpecShared == InitShared /\ [][Next]_vars

InitMarkers == \E s \in DOMAIN SourcesOf("markers") : Start("markers", s)

SpecMarkers == InitMarkers /\ [][Next]_vars

InitTwice == \E s \in DOMAIN SourcesOf("twice") : Start("twice", s)

SpecTwice == InitTwice /\ [][Next]_vars

InitSteps == \E s \in DOMAIN SourcesOf("steps") : Start("steps", s)

SpecSteps == InitSteps /\ [][Next]_vars

(***************************************************************************)
(* Vocabulary of the properties.                                            *)
(***************************************************************************)
\* the value at (h1, a) and the value at (h2, b) are structurally equal:
\* same primitive, or arrays with pairwise equal elements, or plain objects
\* with the same keys and equal values (and the same merge_* entries)
RECURSIVE SameTree(_, _, _, _)
SameTree(h1, a, h2, b) ==
  IF ~IsRef(a) \/ ~IsRef(b) THEN a = b
  ELSE /\ h1[a].k = h2[b].k
       /\ Len(h1[a].items) = Len(h2[b].items)
       /\ \A i \in DOMAIN h1[a].items : SameTree(h1, h1[a].items[i], h2, h2[b].items[i])
       /\ {h1[a].props[i][1] : i \in DOMAIN h1[a].props} = {h2[b].props[i][1] : i \in DOMAIN h2[b].props}
       /\ \A i \in DOMAIN h1[a].props :
            SameTree(h1, h1[a].props[i][2], h2, Lookup(h2[b].props, h1[a].props[i][1]))
       /\ {h1[a].syms[i] : i \in DOMAIN h1[a].syms} = {h2[b].syms[i] : i \in DOMAIN h2[b].syms}

\* the value v is what the literal `node` denotes (a literal without
\* "source" or "spread" parts)
RECURSIVE Denotes(_, _, _)
Denotes(h, v, node) ==
  IF node.t = "prim" THEN v = node.v
  ELSE /\ IsRef(v)
       /\ h[v].k = node.t
       /\ Len(h[v].items) = Len(node.it)
       /\ \A i \in DOMAIN node.it : Denotes(h, h[v].items[i], node.it[i])
       /\ {h[v].props[i][1] : i \in DOMAIN h[v].props} = {node.kv[i][1] : i \in DOMAIN node.kv}
       /\ \A i \in DOMAIN node.kv : Denotes(h, Get(h, v, node.kv[i][1]), node.kv[i][2])
       /\ {h[v].syms[i] : i \in DOMAIN h[v].syms}
            = {<<node.sy[i].prop, addInstructions(node.sy[i])>> : i \in DOMAIN node.sy}

\* the containers directly held by the container o
Children(h, o) ==
  {h[o].items[i] : i \in DOMAIN h[o].items} \cup {h[o].props[i][2] : i \in DOMAIN h[o].props}

\* the containers reachable from the value v (v included)
RECURSIVE ReachFrom(_, _, _)
ReachFrom(h, frontier, seen) ==
  IF frontier = {} THEN seen
  ELSE LET next == {c \in UNION {Children(h, o) : o \in frontier} : IsRef(c)} \ seen
       IN ReachFrom(h, next, seen \cup next)
Reach(h, v) == IF IsRef(v) THEN ReachFrom(h, {v}, {v}) ELSE {}

LastCall == calls[Len(calls)]

(***************************************************************************)
(* C1  Immutability: whatever annotate does, the caller's source object is  *)
(* structurally equal to what it was when updateObject was called.          *)
(* (Violated: a merge callback returns a part of the source object, it is   *)
(* installed verbatim at a missing path, and the next change at that path   *)
(* merges into the source object itself.)                                   *)
(***************************************************************************)
C1_SourceUnchanged == Denotes(heap, sourceObject, SourcesOf(inputs)[source])

(***************************************************************************)
(* C2  No aliasing: no container reachable from result is a container       *)
(* reachable from the source object.                                        *)
(* (Violated: _.set installs the merge callback's value at a missing path   *)
(* without cloning it.)                                                     *)
(***************************************************************************)
C2_NoSharedContainer == Reach(heap, result) \cap Reach(heap, sourceObject) = {}

(***************************************************************************)
(* The "arrays" family, read back from the literals the caller wrote.       *)
(***************************************************************************)
\* T: the items of the source's `items`; F: the items of the fragment's
TargetItems == SourcesOf(inputs)[source].kv[1][2].it
FragmentItems(call) == MergesOf(inputs)[call.merge].kv[1][2].it
\* the instructions the fragment declares for `items` (<<>>: undeclared)
Declared(call) == MergesOf(inputs)[call.merge].sy
Policy(call) == Declared(call)[1]

\* the change at the root of the "arrays" family has been made and returned
ArraysMerged == inputs = "arrays" /\ Len(calls) = 1 /\ LastCall.st = "ok"

\* result.items is the array it was before the change, its first Len(T) items
\* are the items it held, and `expected` describes what it holds now
ItemsAre(expected) ==
  LET array == Get(heap, result, "items")
  IN /\ IsArray(heap, array)
     /\ array = Get(pre, result, "items")
     /\ Denotes(heap, array, A(expected))
     /\ \A i \in 1..Len(TargetItems) : heap[array].items[i] = pre[array].items[i]

\* every item past the first n of result.items is a copy: no container of it
\* is a container of the fragment the merge callback returned
AppendedAreClones(n) ==
  LET array == Get(heap, result, "items")
  IN \A i \in (n + 1)..Len(heap[array].items) :
       Reach(heap, heap[array].items[i]) \cap Reach(heap, LastCall.sourceValue) = {}

(***************************************************************************)
(* C3  mergeByContents: the resulting sequence is T, same items at the same *)
(* positions, followed by clones of exactly those items of F, in F's order, *)
(* that are not structurally equal to an item already in the sequence when  *)
(* they are processed.                                                      *)
(***************************************************************************)
RECURSIVE Deduplicated(_, _, _)
Deduplicated(acc, F, i) ==
  IF i > Len(F) THEN acc
  ELSE Deduplicated(IF InSeq(acc, F[i]) THEN acc ELSE Append(acc, F[i]), F, i + 1)

C3_MergeByContents ==
  (ArraysMerged /\ Declared(LastCall) # <<>> /\ Policy(LastCall).mergeByContents = "T")
    => /\ ItemsAre(Deduplicated(TargetItems, FragmentItems(LastCall), 1))
       /\ AppendedAreClones(Len(TargetItems))

\* a fragment with one item T already holds and one it does not: one is
\* skipped, one is appended
C3_Witness ==
  /\ ArraysMerged /\ Declared(LastCall) # <<>> /\ Policy(LastCall).mergeByContents = "T"
  /\ Len(TargetItems) = 1 /\ Len(FragmentItems(LastCall)) = 2
  /\ InSeq(FragmentItems(LastCall), TargetItems[1])
  /\ Len(heap[Get(heap, result, "items")].items) = 2

(***************************************************************************)
(* Merge by key, said on the literals.  The items of the "arrays" family    *)
(* hold scalars and sequences only, so merging an item's fields into an     *)
(* existing item is: every field of the item takes the item's value (a      *)
(* scalar overwrites, a sequence replaces), the other fields stay.          *)
(***************************************************************************)
HasField(node, key) == node.t = "rec" /\ \E i \in DOMAIN node.kv : node.kv[i][1] = key
FieldOf(node, key) == Lookup(node.kv, key)

\* `existing` after the fields of `item` were merged into it
Overlaid(existing, item) ==
  LET kept == [i \in DOMAIN existing.kv |->
                 IF HasField(item, existing.kv[i][1])
                 THEN <<existing.kv[i][1], FieldOf(item, existing.kv[i][1])>>
                 ELSE existing.kv[i]]
      added == SelectSeq(item.kv, LAMBDA entry : ~HasField(existing, entry[1]))
  IN R(kept \o added)

\* the position of the first record of acc whose `key` field equals the
\* item's, 0 when there is none
FirstMatch(acc, item, key) ==
  LET matches == {j \in DOMAIN acc : HasField(acc[j], key) /\ FieldOf(acc[j], key) = FieldOf(item, key)}
  IN IF matches = {} THEN 0 ELSE CHOOSE j \in matches : \A k \in matches : j <= k

\* the sequence acc after the items F[i..] were applied in order under
\* mergeByProp(key)
RECURSIVE MergedByKey(_, _, _, _)
MergedByKey(acc, F, key, i) ==
  IF i > Len(F) THEN acc
  ELSE LET item == F[i]
           j == IF HasField(item, key) THEN FirstMatch(acc, item, key) ELSE 0
       IN MergedByKey(IF j = 0 THEN Append(acc, item)
                      ELSE [acc EXCEPT ![j] = Overlaid(acc[j], item)],
                      F, key, i + 1)

\* the strategy in force for `items` in the last call
KeyInForce(call) ==
  IF Declared(call) = <<>> \/ Policy(call).mergeByContents = "T" THEN ""
  ELSE Policy(call).mergeByProp

(***************************************************************************)
(* C4  mergeByProp(key): each fragment item that is a record holding key,   *)
(* in fragment order, is merged into the first existing record with the     *)
(* same key value, in place (same object at the same index, length          *)
(* unchanged), or else appended as a clone; items it does not hold key, or  *)
(* is no record, are appended as clones; existing items no fragment item    *)
(* matches are unchanged.                                                   *)
(***************************************************************************)
C4_MergeByProp ==
  (ArraysMerged /\ KeyInForce(LastCall) # "")
    => /\ ItemsAre(MergedByKey(TargetItems, FragmentItems(LastCall), KeyInForce(LastCall), 1))
       /\ AppendedAreClones(Len(TargetItems))

\* two existing records carry the key value of the fragment's only item: the
\* first took the item's fields, the second is as it was, nothing was appended
C4_Witness ==
  /\ ArraysMerged /\ KeyInForce(LastCall) = "name"
  /\ Len(TargetItems) = 2 /\ Len(FragmentItems(LastCall)) = 1
  /\ TargetItems[1] # FragmentItems(LastCall)[1]
  /\ HasField(TargetItems[1], "name") /\ HasField(TargetItems[2], "name")
  /\ HasField(FragmentItems(LastCall)[1], "name")
  /\ FirstMatch(TargetItems, FragmentItems(LastCall)[1], "name") = 1
  /\ Len(heap[Get(heap, result, "items")].items) = 2
  /\ ~SameTree(heap, heap[Get(heap, result, "items")].items[1],
               pre, pre[Get(pre, result, "items")].items[1])

(***************************************************************************)
(* C5  Duplicate key values in the fragment under mergeByProp(key): the     *)
(* items of the fragment that carry one key value all end up in one item of *)
(* the sequence (at most one item is appended for that key value), and a    *)
(* field that several of them set has the value the last of them gave it.   *)
(***************************************************************************)
\* the positions of the fragment items carrying the key value of F[i]
SameKey(F, key, i) ==
  {j \in DOMAIN F : HasField(F[j], key) /\ FieldOf(F[j], key) = FieldOf(F[i], key)}

\* the positions of result.items, among from..to, of the records whose key
\* field is the value `val` denotes
Carrying(key, val, from, to) ==
  LET items == heap[Get(heap, result, "items")].items
  IN {p \in from..to : /\ IsObject(heap, items[p])
                       /\ HasKey(heap, items[p], key)
                       /\ Denotes(heap, Get(heap, items[p], key), val)}

Last(S) == CHOOSE j \in S : \A k \in S : k <= j
First(S) == CHOOSE j \in S : \A k \in S : j <= k

C5_DuplicateKeys ==
  (ArraysMerged /\ KeyInForce(LastCall) # "")
    => LET key == KeyInForce(LastCall)
           F == FragmentItems(LastCall)
           items == heap[Get(heap, result, "items")].items
       IN \A i \in DOMAIN F :
            (HasField(F[i], key) /\ Cardinality(SameKey(F, key, i)) >= 2)
              => /\ Cardinality(Carrying(key, FieldOf(F[i], key),
                                         Len(TargetItems) + 1, Len(items))) <= 1
                 /\ Carrying(key, FieldOf(F[i], key), 1, Len(items)) # {}
                 /\ \A f \in FieldNames :
                      LET setters == {j \in SameKey(F, key, i) : HasField(F[j], f)}
                      IN Cardinality(setters) >= 2
                           => Denotes(heap,
                                      Get(heap, items[First(Carrying(key, FieldOf(F[i], key),
                                                                     1, Len(items)))], f),
                                      FieldOf(F[Last(setters)], f))

\* an empty sequence and a fragment {name, v: 2, w} then {name, v: 1} with
\* the same name: one item was appended and its v is 1
C5_Witness ==
  /\ ArraysMerged /\ KeyInForce(LastCall) = "name"
  /\ TargetItems = <<>>
  /\ FragmentItems(LastCall) = <<ArrayItems[3], ArrayItems[2]>>
  /\ Len(heap[Get(heap, result, "items")].items) = 1
  /\ Get(heap, heap[Get(heap, result, "items")].items[1], "v") = Prim(1)
  /\ HasKey(heap, heap[Get(heap, result, "items")].items[1], "w")

(***************************************************************************)
(* The last change made again, from the heap it found, with the fragment's  *)
(* `items` under another policy.                                            *)
(***************************************************************************)
Replayed(call, options) ==
  HandleMerge(pre, call.path, RI(options, MergesOf(inputs)[call.merge].kv))

\* mergeByName is the strategy in force for `items` in the call
ByNameInForce(call) ==
  /\ Declared(call) # <<>>
  /\ Policy(call).mergeByContents # "T"
  /\ Policy(call).mergeByProp = ""
  /\ Policy(call).mergeByName = "T"

(***************************************************************************)
(* C6  mergeByName is mergeByProp with key 'name': a change whose policy    *)
(* for `items` is mergeByName leaves what the same change leaves under      *)
(* {mergeByProp: 'name'}; and when no fragment item is a record with a      *)
(* 'name' field, every fragment item is appended as a clone.                *)
(***************************************************************************)
C6_MergeByNameIsByPropName ==
  (inputs = "arrays" /\ Len(calls) = 1 /\ ByNameInForce(LastCall))
    => /\ Replayed(LastCall, <<Options("items", "U", "name", "U", "U")>>).st = LastCall.st
       /\ SameTree(heap, result,
                   Replayed(LastCall, <<Options("items", "U", "name", "U", "U")>>).h, result)
       /\ (\A i \in DOMAIN FragmentItems(LastCall) : ~HasField(FragmentItems(LastCall)[i], "name"))
            => /\ ItemsAre(TargetItems \o FragmentItems(LastCall))
               /\ AppendedAreClones(Len(TargetItems))

\* under mergeByName, a fragment with a named record the sequence holds and
\* an item without a name: the first is merged, the second appended
C6_Witness ==
  /\ ArraysMerged /\ ByNameInForce(LastCall)
  /\ Len(TargetItems) = 1 /\ Len(FragmentItems(LastCall)) = 2
  /\ HasField(TargetItems[1], "name")
  /\ HasField(FragmentItems(LastCall)[1], "name")
  /\ FragmentItems(LastCall)[1] # TargetItems[1]
  /\ ~HasField(FragmentItems(LastCall)[2], "name")
  /\ Len(heap[Get(heap, result, "items")].items) = 2
  /\ ~SameTree(heap, heap[Get(heap, result, "items")].items[1],
               pre, pre[Get(pre, result, "items")].items[1])

(***************************************************************************)
(* C7  Precedence: when the policy for `items` gives more than one strategy *)
(* option, the sequence is merged by exactly one strategy: by contents if   *)
(* mergeByContents is true, else by the mergeByProp key if one is given,    *)
(* else by name if mergeByName is true, else by appending; the options of   *)
(* lower priority leave no trace in the result.                             *)
(***************************************************************************)
OptionsGiven(policy) ==
  Cardinality({o \in {"mergeByContents", "mergeByName"} : policy[o] # "U"}
              \cup {o \in {"mergeByProp"} : policy[o] # ""})

ByPriority(policy, T, F) ==
  IF policy.mergeByContents = "T" THEN Deduplicated(T, F, 1)
  ELSE IF policy.mergeByProp # "" THEN MergedByKey(T, F, policy.mergeByProp, 1)
  ELSE IF policy.mergeByName = "T" THEN MergedByKey(T, F, "name", 1)
  ELSE T \o F

C7_Precedence ==
  (ArraysMerged /\ Declared(LastCall) # <<>> /\ OptionsGiven(Policy(LastCall)) >= 2)
    => /\ ItemsAre(ByPriority(Policy(LastCall), TargetItems, FragmentItems(LastCall)))
       /\ AppendedAreClones(Len(TargetItems))

\* {mergeByProp: 'v', mergeByName: true}, the sequence holds {name, v: 2, w}
\* and the fragment {name, v: 1}: by name they would match, by v they do
\* not, and the item was appended
C7_Witness ==
  /\ ArraysMerged /\ Declared(LastCall) # <<>>
  /\ Policy(LastCall).mergeByContents = "U"
  /\ Policy(LastCall).mergeByProp = "v" /\ Policy(LastCall).mergeByName = "T"
  /\ TargetItems = <<ArrayItems[3]>>
  /\ FragmentItems(LastCall) = <<ArrayItems[2]>>
  /\ Len(heap[Get(heap, result, "items")].items) = 2

(***************************************************************************)
(* The implicit name heuristic: `items` is undeclared, the target holds a   *)
(* sequence there (every source of the family does) and the fragment's      *)
(* first item is a record with a 'name' field.                              *)
(***************************************************************************)
HeuristicApplies(call) ==
  /\ Declared(call) = <<>>
  /\ Len(FragmentItems(call)) > 0
  /\ HasField(FragmentItems(call)[1], "name")

\* `existing` after `item` was merged into it by the default deep-merge rule:
\* a scalar overwrites, a sequence is appended to the sequence the field
\* holds (the sequences of the family hold scalars) or else replaces it
DeepOverlaid(existing, item) ==
  LET kept == [i \in DOMAIN existing.kv |->
                 IF ~HasField(item, existing.kv[i][1]) THEN existing.kv[i]
                 ELSE IF FieldOf(item, existing.kv[i][1]).t = "arr" /\ existing.kv[i][2].t = "arr"
                 THEN <<existing.kv[i][1],
                        A(existing.kv[i][2].it \o FieldOf(item, existing.kv[i][1]).it)>>
                 ELSE <<existing.kv[i][1], FieldOf(item, existing.kv[i][1])>>]
      added == SelectSeq(item.kv, LAMBDA entry : ~HasField(existing, entry[1]))
  IN R(kept \o added)

RECURSIVE MergedByNameDeep(_, _, _)
MergedByNameDeep(acc, F, i) ==
  IF i > Len(F) THEN acc
  ELSE LET item == F[i]
           j == IF HasField(item, "name") THEN FirstMatch(acc, item, "name") ELSE 0
       IN MergedByNameDeep(IF j = 0 THEN Append(acc, item)
                           ELSE [acc EXCEPT ![j] = DeepOverlaid(acc[j], item)],
                           F, i + 1)

\* every field of every named record of F is a scalar
NamedItemsAreFlat(F) ==
  \A i \in DOMAIN F :
    HasField(F[i], "name") => \A k \in DOMAIN F[i].kv : F[i].kv[k][2].t = "prim"

GaveDirective(call) == CommentsOf(inputs)[call.comment].kind = "directive"

Commented ==
  LET with == SelectSeq(calls, GaveDirective)
  IN [i \in DOMAIN with |->
        [path |-> with[i].path,
         comment |-> CommentsOf(inputs)[with[i].comment].text,
         direction |-> CommentsOf(inputs)[with[i].comment].direction]]

C9_CommentLog == pc = "returned" => comments = Commented

\* three changes: a directive at ['a'], a callback returning undefined, then
\* another directive at the root; the log holds the two directives in order
C9_Witness ==
  /\ pc = "returned" /\ inputs = "comments" /\ Len(calls) = 3
  /\ CommentsOf(inputs)[calls[1].comment] = Directive("t1", "right") /\ calls[1].path = <<"a">>
  /\ CommentsOf(inputs)[calls[2].comment] = CommentUndefined
  /\ CommentsOf(inputs)[calls[3].comment] = Directive("t2", "up") /\ calls[3].path = <<>>
  /\ comments = << [path |-> <<"a">>, comment |-> "t1", direction |-> "right"],
                   [path |-> <<>>, comment |-> "t2", direction |-> "up"] >>

(***************************************************************************)
(* Changes applied one after another, said on the literals: a tree is a     *)
(* literal of records, sequences and scalars.  The fragments of the "steps" *)
(* family carry no instructions and their sequences hold scalars, so the    *)
(* default deep merge of a fragment into a tree is: a scalar overwrites, a  *)
(* record is merged into the record the field holds (or into a new one), a  *)
(* sequence is appended to the sequence the field holds (or replaces what   *)
(* the field holds).                                                        *)
(***************************************************************************)
Absent == P(undefined)

TreeHas(tree, key) == \E i \in DOMAIN tree.kv : tree.kv[i][1] = key
TreeField(tree, key) == IF TreeHas(tree, key) THEN Lookup(tree.kv, key) ELSE Absent
TreeWith(tree, key, value) ==
  IF TreeHas(tree, key)
  THEN [tree EXCEPT !.kv = [i \in DOMAIN tree.kv |->
                              IF tree.kv[i][1] = key THEN <<key, value>> ELSE tree.kv[i]]]
  ELSE [tree EXCEPT !.kv = Append(tree.kv, <<key, value>>)]

RECURSIVE TreeAt(_, _, _)
TreeAt(tree, path, i) ==
  IF i > Len(path) THEN tree ELSE TreeAt(TreeField(tree, path[i]), path, i + 1)

RECURSIVE TreePut(_, _, _, _)
TreePut(tree, path, i, value) ==
  IF i > Len(path) THEN value
  ELSE TreeWith(tree, path[i],
                TreePut(IF TreeField(tree, path[i]).t = "prim" THEN R(<<>>)
                        ELSE TreeField(tree, path[i]),
                        path, i + 1, value))

RECURSIVE DeepMerged(_, _, _)
DeepMerged(tree, fragment, i) ==
  IF i > Len(fragment.kv) THEN tree
  ELSE LET key == fragment.kv[i][1]
           value == fragment.kv[i][2]
           old == TreeField(tree, key)
           new == IF value.t = "arr"
                  THEN IF old.t = "arr" THEN [old EXCEPT !.it = old.it \o value.it] ELSE value
                  ELSE IF value.t = "rec"
                  THEN DeepMerged(IF old.t = "rec" THEN old ELSE R(<<>>), value, 1)
                  ELSE value
       IN DeepMerged(TreeWith(tree, key, new), fragment, i + 1)

\* the path a selector of the family designates, and whether it can be
\* followed in the tree (every value it reads a field of is a container)
SelectorPath(call) ==
  IF FindKeysOf(inputs)[call.findKey] = <<>> THEN <<>> ELSE FindKeysOf(inputs)[call.findKey][1]
Resolves(tree, path) ==
  \A i \in 1..(Len(path) - 1) : TreeAt(tree, SubSeq(path, 1, i), 1).t # "prim"

\* what the merge callback returns when it is handed the tree `original`
Returned(call, original) ==
  LET node == MergesOf(inputs)[call.merge]
  IN IF node.t = "spread"
     THEN Overlaid(IF original.t = "rec" THEN original ELSE R(<<>>), R(node.kv))
     ELSE node

\* the tree after the change `call` was applied to it
Applied(tree, call) ==
  LET path == SelectorPath(call)
      original == TreeAt(tree, path, 1)
      fragment == Returned(call, original)
  IN IF Len(path) > 0 /\ original = Absent THEN TreePut(tree, path, 1, fragment)
     ELSE IF original.t = "prim" \/ fragment.t # "rec" THEN tree
     ELSE TreePut(tree, path, 1, DeepMerged(original, fragment, 1))

\* the source after the first k changes were applied in the order of the calls
RECURSIVE AfterChanges(_)
AfterChanges(k) ==
  IF k = 0 THEN SourcesOf(inputs)[source] ELSE Applied(AfterChanges(k - 1), calls[k])

(***************************************************************************)
(* C10  Sequential visibility: the k-th change resolves its selector        *)
(* against the tree the changes 1..k-1 left (it can be followed exactly     *)
(* when that tree holds containers along it), hands to its merge callback   *)
(* the value that tree holds at the path, and while annotate runs and when  *)
(* updateObject has returned, result is the source with the changes made so *)
(* far applied one after another in the order of the calls.                 *)
(***************************************************************************)
C10_SequentialVisibility ==
  (inputs = "steps" /\ Len(calls) >= 1)
    => LET before == AfterChanges(Len(calls) - 1)
           path == SelectorPath(LastCall)
       IN /\ Resolves(before, path) <=> LastCall.path = path
          /\ (Resolves(before, path) /\ Len(path) > 0)
               => IF TreeAt(before, path, 1) = Absent
                  THEN LastCall.originalValue = undefined
                  ELSE /\ LastCall.originalValue = lodashGet(pre, result, createPathString(path))
                       /\ Denotes(pre, LastCall.originalValue, TreeAt(before, path, 1))
          /\ pc \in {"annotate", "returned"}
               => Denotes(heap, result, AfterChanges(Len(calls)))

\* the first change creates c.w at the root, the second selects c.w, which
\* the source does not hold, and spreads the record it is handed
C10_Witness ==
  /\ inputs = "steps" /\ pc = "returned" /\ Len(calls) = 2
  /\ TreeAt(SourcesOf(inputs)[source], <<"c">>, 1) = Absent
  /\ calls[1].path = <<>> /\ calls[2].path = <<"c", "w">>
  /\ MergesOf(inputs)[calls[2].merge].t = "spread"
  /\ IsRef(calls[2].originalValue)
  /\ Denotes(heap, lodashGet(heap, result, createPathString(<<"c", "w">>)),
             R(<< <<"v", P(Prim(3))>>, <<"b", P(Prim(2))>> >>))

(***************************************************************************)
(* Path resolution, said on the literals.  A selector reads keys one after  *)
(* another; a read is on a wrapper when the value it reads from is the root *)
(* or a record or sequence an earlier read on a wrapper returned.  A read   *)
(* of a symbol on a wrapper fails, a read on undefined or null is the       *)
(* selector's own failure, a `?.` on undefined or null ends the selector.   *)
(***************************************************************************)
TreeRead(tree, key) ==
  IF tree.t = "arr"
  THEN IF IsIndex(key) /\ IndexOf(key) <= Len(tree.it) THEN tree.it[IndexOf(key)] ELSE Absent
  ELSE TreeField(tree, key)

RECURSIVE KeysRead(_, _, _, _, _)
KeysRead(tree, wrapped, chain, i, path) ==
  IF i > Len(chain) THEN [end |-> "returned", path |-> path]
  ELSE IF chain[i] = OptionalMark
  THEN IF tree.t = "prim" /\ IsNullish(tree.v)
       THEN [end |-> "returned", path |-> path]
       ELSE KeysRead(tree, wrapped, chain, i + 1, path)
  ELSE IF wrapped
  THEN IF chain[i] = SymbolKey
       THEN [end |-> "symbol", path |-> path]
       ELSE KeysRead(TreeRead(tree, chain[i]), TreeRead(tree, chain[i]).t # "prim",
                     chain, i + 1, Append(path, chain[i]))
  ELSE IF IsNullish(tree.v)
  THEN [end |-> "failed", path |-> path]
  ELSE KeysRead(Absent, FALSE, chain, i + 1, path)

\* the statements of a selector run one after another on the same wrapper
RECURSIVE SelectorReads(_, _, _, _)
SelectorReads(tree, lambda, c, path) ==
  IF c > Len(lambda) THEN [end |-> "returned", path |-> path]
  ELSE LET reads == KeysRead(tree, TRUE, lambda[c], 1, path)
       IN IF reads.end = "returned" THEN SelectorReads(tree, lambda, c + 1, reads.path)
          ELSE reads

\* what the selector of the last call reads in the source (the "paths"
\* family makes one change, so the tree it is resolved against is the source)
LastReads ==
  SelectorReads(SourcesOf(inputs)[source], FindKeysOf(inputs)[LastCall.findKey], 1, <<>>)

(***************************************************************************)
(* C11  Path resolution: a selector that returns yields a path, and the     *)
(* path is exactly the keys the selector read on the wrapper and on wrapped *)
(* record or sequence results of earlier reads, each once and in read       *)
(* order; so the identity selector yields the empty path, a selector        *)
(* reading three nested fields yields these three keys, and the keys after  *)
(* a `?.` that ended the selector are not in the path.                      *)
(***************************************************************************)
C11_PathResolution ==
  (inputs = "paths" /\ Len(calls) >= 1)
    => /\ LastReads.end = "returned" <=> LastCall.st # "nopath"
       /\ LastReads.end = "returned" => LastCall.path = LastReads.path
       /\ FindKeysOf(inputs)[LastCall.findKey] = <<>> => LastCall.path = <<>>
       /\ (FindKeysOf(inputs)[LastCall.findKey] = << <<"a", "b", "c">> >>
            /\ LastCall.st # "nopath") => LastCall.path = <<"a", "b", "c">>

\* o => o.a?.b?.c on a source without a: the selector ends after reading a,
\* and the value the merge callback returned is installed at a
C11_Witness ==
  /\ inputs = "paths" /\ pc = "returned" /\ Len(calls) = 1
  /\ FindKeysOf(inputs)[LastCall.findKey] = << <<"a", OptionalMark, "b", OptionalMark, "c">> >>
  /\ TreeField(SourcesOf(inputs)[source], "a") = Absent
  /\ LastCall.path = <<"a">>
  /\ Get(heap, result, "a") = Prim(4)

(***************************************************************************)
(* C12  Unsupported key: when the selector reads a symbol on the wrapper or *)
(* on a nested wrapper, the change call throws before the merge and the     *)
(* comment callbacks run (the tree and the comment log are as they were),   *)
(* updateObject does not return, and the path holds the keys read before    *)
(* the symbol but not the symbol.                                           *)
(***************************************************************************)
C12_SymbolKeyFails ==
  (inputs = "paths" /\ Len(calls) >= 1 /\ LastReads.end = "symbol")
    => /\ pc = "thrown"
       /\ LastCall.st = "nopath"
       /\ LastCall.path = LastReads.path
       /\ \A i \in DOMAIN LastCall.path : LastCall.path[i] # SymbolKey
       /\ heap = pre
       /\ comments = <<>>

\* o => o.a[sym] on a source that holds the record a: a was read and is the
\* whole path when the read of the symbol throws
C12_Witness ==
  /\ inputs = "paths" /\ pc = "thrown" /\ Len(calls) = 1
  /\ FindKeysOf(inputs)[LastCall.findKey] = << <<"a", SymbolKey>> >>
  /\ TreeField(SourcesOf(inputs)[source], "a").t = "rec"
  /\ LastCall.path = <<"a">>
  /\ CommentsOf(inputs)[LastCall.comment] # NoComment

(***************************************************************************)
(* C13  The merge never raises: a change whose selector resolved completes, *)
(* whatever the kinds of the value at the path (record, sequence, scalar,   *)
(* null) and of the fragment (record, sequence, scalar, null, with null     *)
(* elements and with containers of another kind than the target's).         *)
(***************************************************************************)
C13_MergeNeverRaises ==
  (inputs = "kinds" /\ Len(calls) >= 1 /\ LastCall.st # "nopath")
    => LastCall.st = "ok" /\ pc # "thrown"

\* where in the tree the `items` of the carrying record of a fragment of the
\* "levels" family is merged
CarriedItems(call) ==
  CASE call.merge = 1 -> <<"items">>
    [] call.merge \in {2, 3} -> <<"a", "items">>
    [] OTHER -> <<"c", "0", "items">>

\* the sequence at the path is, item by item, the same before and after
\* the last call
SameItemsAt(path) ==
  SameTree(pre, lodashGet(pre, result, createPathString(path)),
           heap, lodashGet(heap, result, createPathString(path)))

(***************************************************************************)
(* C14  Extraction at every level: a fragment record that carries           *)
(* {prop: 'items', mergeByContents: true} has its `items` merged by         *)
(* contents wherever the merge reaches it -- as the fragment itself, under  *)
(* an undeclared property, under a declared property, as a matched item of  *)
(* a sequence -- so items whose contents the target already holds add       *)
(* nothing to the target's sequence.                                        *)
(***************************************************************************)
C14_ExtractionAtEveryLevel ==
  (inputs = "levels" /\ Len(calls) >= 1 /\ LastCall.st = "ok")
    => SameItemsAt(CarriedItems(LastCall))

(***************************************************************************)
(* C15  Attach/extract round trip: whatever the property name and the       *)
(* policy, the fragment built with addInstructions({prop, ...policy})       *)
(* yields on extraction an entry for prop with exactly that policy, and     *)
(* the enumeration of the fragment's fields visits its ordinary fields      *)
(* only.                                                                    *)
(***************************************************************************)
C15_AttachExtractRoundTrip ==
  (inputs = "attach" /\ Len(calls) >= 1)
    => LET fragment == MergesOf(inputs)[LastCall.merge]
           extracted == extractPropertyMergeInstructions(heap, LastCall.sourceValue)
       IN /\ \A i \in DOMAIN fragment.sy :
               \E j \in DOMAIN extracted :
                 extracted[j] = <<fragment.sy[i].prop, addInstructions(fragment.sy[i])>>
          /\ OwnKeys(heap, LastCall.sourceValue) = [i \in DOMAIN fragment.kv |-> fragment.kv[i][1]]

\* the last call matched the source's item by name
MatchedByName ==
  /\ Policy(LastCall).mergeByContents # "T"
  /\ Policy(LastCall).mergeByProp = "name" \/ Policy(LastCall).mergeByName = "T"
  /\ Len(TargetItems) = 1
  /\ HasField(FragmentItems(LastCall)[1], "name")
  /\ FieldOf(FragmentItems(LastCall)[1], "name") = FieldOf(TargetItems[1], "name")

IsRecordIn(h, v) == IsRef(v) /\ h[v].k = "rec"

\* the record target, merged with the record fragment by the last call,
\* still has every field it had; a field the fragment does not name holds
\* the value it held, and a record field merged with a record of the
\* fragment is the same record, preserved in the same way
RECURSIVE Preserved(_, _)
Preserved(target, fragment) ==
  \A i \in DOMAIN OwnKeys(pre, target) :
    LET key == OwnKeys(pre, target)[i]
    IN /\ HasKey(heap, target, key)
       /\ ~HasKey(heap, fragment, key) => Get(heap, target, key) = Get(pre, target, key)
       /\ (/\ HasKey(heap, fragment, key)
           /\ IsRecordIn(pre, Get(pre, target, key))
           /\ IsRecordIn(heap, Get(heap, fragment, key)))
            => /\ Get(heap, target, key) = Get(pre, target, key)
               /\ Preserved(Get(pre, target, key), Get(heap, fragment, key))

\* the last call merged a record fragment into a record of the tree
MergedRecords ==
  /\ Len(calls) >= 1 /\ LastCall.st = "ok"
  /\ IsRecordIn(pre, LastCall.originalValue)
  /\ IsRecordIn(heap, LastCall.sourceValue)

(***************************************************************************)
(* C17  Merge, not replace: after a record fragment was merged into a       *)
(* record of the tree, the record has every field it had, each field the    *)
(* fragment does not name holds the value it held, and this is so at every  *)
(* level where a record of the fragment met a record of the tree.           *)
(***************************************************************************)
C17_MergeNotReplace ==
  (inputs = "steps" /\ MergedRecords)
    => Preserved(LastCall.originalValue, LastCall.sourceValue)

\* c.v was set by an earlier change; the fragment {c: {w: {v: 3}}} merged at
\* the root names c and c.w but not c.v
C17_Witness ==
  /\ inputs = "steps" /\ pc = "returned" /\ MergedRecords
  /\ LastCall.path = <<>>
  /\ MergesOf(inputs)[LastCall.merge] = StepMerges[2]
  /\ IsRecordIn(pre, Get(pre, result, "c"))
  /\ Get(pre, Get(pre, result, "c"), "v") = Prim(3)
  /\ Get(heap, Get(heap, result, "c"), "v") = Prim(3)
  /\ IsRecordIn(heap, Get(heap, Get(heap, result, "c"), "w"))

\* what the tree holds at the path of the last call before and after it
HeldBefore == lodashGet(pre, result, createPathString(LastCall.path))
HeldAfter == lodashGet(heap, result, createPathString(LastCall.path))

\* the object whose field the last key of the path names
HolderBefore ==
  IF Len(LastCall.path) = 1 THEN result
  ELSE lodashGet(pre, result, createPathString(SubSeq(LastCall.path, 1, Len(LastCall.path) - 1)))

\* the last call resolved a path below the root
ChangedBelowRoot ==
  /\ Len(calls) >= 1 /\ LastCall.st # "nopath" /\ Len(LastCall.path) > 0

(***************************************************************************)
(* C18  Absent target: a change whose non-empty path holds no value hands   *)
(* undefined to the merge callback, completes, and leaves at the path the   *)
(* very value the callback returned, as the callback built it and with no   *)
(* other object of the tree touched but the one that holds the field; a     *)
(* change whose path holds a value hands this value to the callback and,    *)
(* when it completes, the path still holds this value with the fields of a  *)
(* record fragment merged into it.                                          *)
(***************************************************************************)
C18_AbsentTarget ==
  (inputs = "config" /\ ChangedBelowRoot)
    => IF HeldBefore = undefined
       THEN /\ LastCall.st = "ok"
            /\ LastCall.originalValue = undefined
            /\ HeldAfter = LastCall.sourceValue
            /\ MergesOf(inputs)[LastCall.merge].t # "source"
                 => Denotes(heap, HeldAfter, MergesOf(inputs)[LastCall.merge])
            /\ \A o \in DOMAIN pre :
                 o # HolderBefore => heap[o] = pre[o]
       ELSE /\ LastCall.originalValue = HeldBefore
            /\ LastCall.st = "ok"
                 => /\ HeldAfter = HeldBefore
                    /\ (IsRecordIn(pre, HeldBefore) /\ IsRecordIn(heap, LastCall.sourceValue))
                         => \A i \in DOMAIN OwnKeys(heap, LastCall.sourceValue) :
                              HasKey(heap, HeldAfter, OwnKeys(heap, LastCall.sourceValue)[i])

\* o => o.c with no c in the tree and a callback returning {c: {w: [3]}}:
\* the record is now at c, and the next change at c merges into it
C18_Witness ==
  /\ inputs = "config" /\ pc = "returned" /\ Len(calls) = 2
  /\ calls[1].path = <<"c">> /\ calls[1].originalValue = undefined
  /\ MergesOf(inputs)[calls[1].merge] = ConfigMerges[2]
  /\ calls[2].path = <<"c">> /\ calls[2].originalValue = calls[1].sourceValue
  /\ MergesOf(inputs)[calls[2].merge] = ConfigMerges[1]
  /\ Get(heap, result, "c") = calls[1].sourceValue
  /\ Get(heap, Get(heap, result, "c"), "v") = Prim(3)

\* the existing item after the fields item.kv[i..] were merged into it: a
\* sequence and a scalar take the place of what the field held, a record
\* is merged by the default rule into the container the field holds (into
\* a new record when it holds none)
RECURSIVE FieldsMerged(_, _, _)
FieldsMerged(existing, item, i) ==
  IF i > Len(item.kv) THEN existing
  ELSE LET key == item.kv[i][1]
           value == item.kv[i][2]
           old == TreeField(existing, key)
       IN FieldsMerged(TreeWith(existing, key,
                                IF value.t = "rec"
                                THEN DeepMerged(IF old.t = "prim" THEN R(<<>>) ELSE old, value, 1)
                                ELSE value),
                       item, i + 1)

\* the item of the last call's fragment has the name of the existing item
NameMatches ==
  FieldOf(FragmentItems(LastCall)[1], "name") = FieldOf(TargetItems[1], "name")

SequenceMerged(old, given) ==
  IF old.t = "arr" THEN A(old.it \o given.it) ELSE given

\* the name heuristic applies to the sequence given
NamedFirst(given) == Len(given.it) > 0 /\ HasField(given.it[1], "name")

(***************************************************************************)
(* C20  Default rule for an undeclared sequence field: merged at the root,  *)
(* a sequence field of the fragment to which the name heuristic does not    *)
(* apply leaves in the field the same sequence object holding the items it  *)
(* held followed by copies of all the items given, in order; when the field *)
(* held no sequence (nothing, a scalar, null, a record) it holds a copy of  *)
(* the sequence given.  Nothing of the fragment is in the tree.             *)
(***************************************************************************)
C20_DefaultSequenceRule ==
  (inputs = "kinds" /\ Len(calls) >= 1 /\ LastCall.path = <<>>
     /\ MergesOf(inputs)[LastCall.merge].t = "rec")
    => \A i \in DOMAIN MergesOf(inputs)[LastCall.merge].kv :
         LET key == MergesOf(inputs)[LastCall.merge].kv[i][1]
             given == MergesOf(inputs)[LastCall.merge].kv[i][2]
             old == TreeField(SourcesOf(inputs)[source], key)
         IN (given.t = "arr" /\ ~NamedFirst(given))
              => /\ LastCall.st = "ok"
                 /\ Denotes(heap, Get(heap, result, key), SequenceMerged(old, given))
                 /\ old.t = "arr" => Get(heap, result, key) = Get(pre, result, key)
                 /\ Reach(heap, result) \cap Reach(heap, LastCall.sourceValue) = {}

\* the last call merged, at the root, a record fragment of the "kinds" family
RootRecordMerge ==
  /\ inputs = "kinds" /\ Len(calls) >= 1 /\ LastCall.path = <<>>
  /\ MergesOf(inputs)[LastCall.merge].t = "rec"

(***************************************************************************)
(* C21  Default rule for a record field: merged at the root, a record field *)
(* of the fragment leaves in the target's field a record; when the field    *)
(* held nothing, null, a scalar or a sequence it is a new record that holds *)
(* what the fragment's record holds, when it held a record it is that same  *)
(* record with the fragment's record merged into it and its other fields    *)
(* kept.                                                                    *)
(***************************************************************************)
C21_DefaultRecordRule ==
  RootRecordMerge
    => \A i \in DOMAIN MergesOf(inputs)[LastCall.merge].kv :
         LET key == MergesOf(inputs)[LastCall.merge].kv[i][1]
             given == MergesOf(inputs)[LastCall.merge].kv[i][2]
             old == TreeField(SourcesOf(inputs)[source], key)
         IN given.t = "rec"
              => /\ LastCall.st = "ok"
                 /\ Denotes(heap, Get(heap, result, key),
                            DeepMerged(IF old.t = "rec" THEN old ELSE R(<<>>), given, 1))
                 /\ IF old.t = "rec"
                    THEN Get(heap, result, key) = Get(pre, result, key)
                    ELSE Get(heap, result, key) \notin DOMAIN pre

\* {items: {v: 3}, a: [null]} at the root: items held the sequence [1] and
\* is now the record {v: 3}
C21_Witness ==
  /\ RootRecordMerge /\ pc = "returned"
  /\ MergesOf(inputs)[LastCall.merge] = KindMerges[4]
  /\ IsArray(pre, Get(pre, result, "items"))
  /\ Denotes(heap, Get(heap, result, "items"), R(<< <<"v", P(Prim(3))>> >>))

(***************************************************************************)
(* C22  A policy declared for a record-valued property does not alter its   *)
(* merge: the change ends as, and leaves a tree structurally equal to, the  *)
(* same change made with no policy declared -- also when the target holds   *)
(* a sequence or a scalar at the property and when the property's record    *)
(* carries entries of its own.                                              *)
(***************************************************************************)
C22_PolicyInertForRecords ==
  (inputs = "declared" /\ Len(calls) >= 1)
    => /\ Replayed(LastCall, <<>>).st = LastCall.st
       /\ SameTree(heap, result, Replayed(LastCall, <<>>).h, result)

\* the items the source holds at `items`, none when it holds no sequence
ItemsHeld ==
  IF TreeField(SourcesOf(inputs)[source], "items").t = "arr"
  THEN TreeField(SourcesOf(inputs)[source], "items").it
  ELSE <<>>

(***************************************************************************)
(* C23  A declared policy that sets no strategy appends: `items` holds the  *)
(* items it held (none when it held no sequence) followed by copies of all  *)
(* the fragment's items in order, without deduplication and without         *)
(* matching by name; a sequence that was there is the same object, and      *)
(* nothing of the fragment is in the tree.                                  *)
(***************************************************************************)
C23_NoStrategyAppends ==
  (inputs = "plain" /\ Len(calls) >= 1)
    => /\ LastCall.st = "ok"
       /\ Denotes(heap, Get(heap, result, "items"),
                  A(ItemsHeld \o FragmentItems(LastCall)))
       /\ IF TreeField(SourcesOf(inputs)[source], "items").t = "arr"
          THEN Get(heap, result, "items") = Get(pre, result, "items")
          ELSE Get(heap, result, "items") \notin DOMAIN pre
       /\ Reach(heap, result) \cap Reach(heap, LastCall.sourceValue) = {}

\* {mergeByContents: false, mergeByName: false} and twice {name: 1, v: 1}
\* onto [{name: 1, v: 1}]: three equal records
C23_Witness ==
  /\ inputs = "plain" /\ pc = "returned" /\ Len(calls) = 1
  /\ Policy(LastCall) = PlainPolicies[2]
  /\ Len(ItemsHeld) = 1 /\ FragmentItems(LastCall) = PlainFragments[2].it
  /\ Len(heap[Get(heap, result, "items")].items) = 3

\* the object that holds the i-th key of the last call's path, before the
\* call
HolderOf(i) ==
  IF i = 1 THEN result
  ELSE lodashGet(pre, result, createPathString(SubSeq(LastCall.path, 1, i - 1)))

\* the last call completed at a non-empty path that held a record or a
\* sequence
NestedChange ==
  /\ ChangedBelowRoot /\ LastCall.st = "ok"
  /\ IsRef(HeldBefore)

\* every location beside the path holds after the last call a tree equal to
\* the one it held before: along the path, each holder is the same object
\* with the same fields, and its fields other than the path's are unchanged
BesideThePath ==
  \A i \in DOMAIN LastCall.path :
    /\ {heap[HolderOf(i)].props[j][1] : j \in DOMAIN heap[HolderOf(i)].props}
         = {pre[HolderOf(i)].props[j][1] : j \in DOMAIN pre[HolderOf(i)].props}
    /\ Len(heap[HolderOf(i)].items) = Len(pre[HolderOf(i)].items)
    /\ \A j \in DOMAIN OwnKeys(pre, HolderOf(i)) :
         OwnKeys(pre, HolderOf(i))[j] # LastCall.path[i]
           => SameTree(pre, Get(pre, HolderOf(i), OwnKeys(pre, HolderOf(i))[j]),
                       heap, Get(heap, HolderOf(i), OwnKeys(pre, HolderOf(i))[j]))

(***************************************************************************)
(* C24  Frame of a nested change: a change at a non-empty path that held a  *)
(* record or a sequence leaves that same object at the path (the write-back *)
(* changes nothing) and leaves every location of result that is not at or   *)
(* below the path holding what it held.                                     *)
(***************************************************************************)
C24_NestedChangeFrame ==
  ((inputs = "shared" \/ inputs = "steps") /\ NestedChange)
    => HeldAfter = HeldBefore /\ BesideThePath

(***************************************************************************)
(* C25  Termination: every change call ends (it returns or it throws), also *)
(* when the merge callback built the fragment from originalValue, as in     *)
(* {...originalValue, b: 2}, so that a sequence of the fragment is the very *)
(* sequence the target holds.                                               *)
(***************************************************************************)
C25_ChangeTerminates ==
  (inputs = "steps" /\ Len(calls) >= 1) => LastCall.st # "div" /\ pc # "diverged"

\* the last call resolved a non-empty path that held a scalar (a string, a
\* number, a boolean) and its merge callback returned a scalar
ScalarOntoScalar ==
  /\ ChangedBelowRoot
  /\ ~IsRef(HeldBefore) /\ ~IsNullish(HeldBefore)
  /\ MergesOf(inputs)[LastCall.merge].t = "prim"
  /\ ~IsNullish(MergesOf(inputs)[LastCall.merge].v)

(***************************************************************************)
(* C26  Change on an existing scalar: when the path holds a scalar and the  *)
(* merge callback returns a scalar, the call completes, the value returned  *)
(* is dropped and the tree is as it was; the comment log holds the call's   *)
(* record when its comment callback gave a directive and nothing else.      *)
(***************************************************************************)
C26_ScalarKept ==
  (inputs = "paths" /\ ScalarOntoScalar)
    => /\ LastCall.st = "ok"
       /\ LastCall.originalValue = HeldBefore
       /\ HeldAfter = HeldBefore
       /\ heap = pre
       /\ comments = IF GaveDirective(LastCall)
                     THEN << [path |-> LastCall.path,
                              comment |-> CommentsOf(inputs)[LastCall.comment].text,
                              direction |-> CommentsOf(inputs)[LastCall.comment].direction] >>
                     ELSE <<>>

\* o => o.b on {b: 2} with merge: () => 4 and a comment: b is still 2 and
\* the log holds one record
C26_Witness ==
  /\ inputs = "paths" /\ pc = "returned" /\ ScalarOntoScalar
  /\ LastCall.path = <<"b">>
  /\ Get(heap, result, "b") = Prim(2)
  /\ LastCall.sourceValue = Prim(4)
  /\ Len(comments) = 1

\* the last statement of the selector of the last call, the one whose value
\* the selector returns, and the keys it reads
ReturnChain == FindKeysOf(inputs)[LastCall.findKey][Len(FindKeysOf(inputs)[LastCall.findKey])]
ReturnKeys == SelectSeq(ReturnChain, LAMBDA key : key # OptionalMark)

\* the selector of the last call returned a value read from the tree: it
\* returned the root, or every key of its last statement was read on a
\* wrapper
ReturnsTreeValue ==
  /\ Len(calls) >= 1 /\ LastCall.st # "nopath"
  /\ FindKeysOf(inputs)[LastCall.findKey] # <<>>
       => KeysRead(SourcesOf(inputs)[source], TRUE, ReturnChain, 1, <<>>).path = ReturnKeys

\* the value the selector returned, and the value the path designates
Selected ==
  IF FindKeysOf(inputs)[LastCall.findKey] = <<>> THEN result
  ELSE baseGet(pre, result, ReturnKeys, 1)
Designated ==
  IF Len(LastCall.path) = 0 THEN result
  ELSE lodashGet(pre, result, createPathString(LastCall.path))

(***************************************************************************)
(* C27  The resolved path designates the selected value: when the selector  *)
(* returns a value read from the tree, following the resolved path in the   *)
(* tree finds that value -- also when the selector reads another field      *)
(* chain before the one it returns.                                         *)
(***************************************************************************)
C27_PathDesignatesSelected ==
  (inputs = "paths" /\ ReturnsTreeValue) => Designated = Selected

\* C28: no instruction markers leak into the result: after any sequence of
\* changes no record reachable from the result carries a merge_* entry,
\* whether the fragment that carried it was merged at the root or in a
\* nested record, appended or installed as an item, or installed at an
\* absent path
C28_NoMarkersLeak ==
  \A cell \in Reach(heap, result) : heap[cell].syms = <<>>

(***************************************************************************)
(* C29  mergeByContents is idempotent: merging the same fragment under      *)
(* mergeByContents a second time leaves the target sequence exactly as it   *)
(* was after the first merge: same items, same order, same length.          *)
(***************************************************************************)
\* the change the last call made, made once more on the tree as it is now
MergedAgain == HandleMerge(heap, LastCall.path, MergesOf(inputs)[LastCall.merge])

\* the sequence at result.items is, in heap h, the array it is now with the
\* items it holds now
ItemsKept(h) ==
  LET array == Get(heap, result, "items")
  IN /\ Get(h, result, "items") = array
     /\ h[array].items = heap[array].items
     /\ SameTree(heap, array, h, array)

C29_MergeByContentsIdempotent ==
  (ArraysMerged /\ Declared(LastCall) # <<>> /\ Policy(LastCall).mergeByContents = "T")
    => MergedAgain.st = "ok" /\ ItemsKept(MergedAgain.h)

\* the first merge appended a record and a scalar the target did not hold
C29_Witness ==
  /\ ArraysMerged /\ Declared(LastCall) # <<>> /\ Policy(LastCall).mergeByContents = "T"
  /\ Len(TargetItems) = 1
  /\ Len(heap[Get(heap, result, "items")].items) = 3
  /\ \E i \in 2..3 : IsRef(heap[Get(heap, result, "items")].items[i])
  /\ \E i \in 2..3 : ~IsRef(heap[Get(heap, result, "items")].items[i])

(***************************************************************************)
(* C30  The default deep merge is idempotent: for a record target T and a   *)
(* record fragment F without entries, built apart from T, applying F to T   *)
(* twice leaves T structurally equal to applying F once.                    *)
(***************************************************************************)
\* the same change was made twice in a row, on a record, with a record
AppliedTwice ==
  /\ inputs = "twice" /\ Len(calls) = 2
  /\ calls[1].findKey = calls[2].findKey /\ calls[1].merge = calls[2].merge
  /\ calls[1].st = "ok" /\ calls[2].st = "ok"
  /\ IsRef(calls[1].originalValue) /\ calls[2].originalValue = calls[1].originalValue
  /\ pre[calls[1].originalValue].k = "rec"
  /\ MergesOf(inputs)[calls[1].merge].t = "rec"

\* the result is now what it was after the first of the two
SameAsOnce == SameTree(pre, result, heap, result)

\* the fragment, as the caller wrote it, holds a sequence with an item
RECURSIVE HoldsItems(_)
HoldsItems(node) ==
  \/ Len(node.it) > 0
  \/ \E i \in DOMAIN node.kv : HoldsItems(node.kv[i][2])

====
